---- MODULE Spec2Model ----
(***************************************************************************)
(* Verification model of the Linea prover sources:                         *)
(*   - zkevm.FullZkEvm, the process-wide memoized compilation entry point  *)
(*     guarded by onceFullZkEvm (sync.Once);                               *)
(*   - the smartvectors constructors LeftPadded / RightPadded / ...,       *)
(*     Density and IntoRegVec;                                             *)
(*   - wizard.Compile / Prove / Verify as TestKeccak drives them.          *)
(*   - zkevm.fullCompilationSuite, the ordered list of compilation passes; *)
(*   - utils.NextPowerOfTwo and utils.RightPad;                            *)
(*   - cmd.updateSetup and cmd.cmdSetup, the `setup` command.              *)
(* Each part has its own specification; the variables of the other parts   *)
(* are left unchanged by it.                                               *)
(***************************************************************************)
EXTENDS Integers, Sequences, FiniteSets, TLC

(***************************************************************************)
(* Bounds of the model.                                                    *)
(***************************************************************************)
\* number of goroutines calling FullZkEvm
NumCallers == 2
\* number of sequential calls each goroutine may make
MaxCalls == 2
\* number of distinct non-nil *config.TracesLimits values
NumLimits == 2
\* largest length of a slice or smart-vector
MaxLen == 3
\* field elements are drawn from 0..MaxElem
MaxElem == 1
\* the small protocol's columns have WizColLen rows over a field of WizFieldSize
WizColLen == 2
WizFieldSize == 3
\* the instances a compilation starts from have columns of size 2^0..2^MaxLogSize
MaxLogSize == 20
\* NextPowerOfTwo is applied to the ints 2^k + d with |d| <= MaxDelta
MaxDelta == 2
\* GCD is applied to the ints -MaxGcd..MaxGcd
MaxGcd == 6
\* the width of a Go int on the 64-bit platforms the prover is built for
IntBits == 64
\* number of distinct checksums a manifest or a circuit may have
NumDigests == 2
\* cfg.Aggregation.NumProofs lists MaxNumProofs aggregation sizes
MaxNumProofs == 2

VARIABLES
    \* ---- zkevm.FullZkEvm -------------------------------------------------
    pc,          \* position of each caller inside FullZkEvm / Once.Do
    arg,         \* the tl argument of the caller's current call
    ncalls,      \* number of calls the caller has started
    done,        \* onceFullZkEvm.done (0 or 1)
    mutex,       \* onceFullZkEvm.m : 0 when free, else the holder
    fullZkEvm,   \* the package variable: NilPtr or a pointer to an instance
    instances,   \* heap of *ZkEvm: instances[p] is the tl it was built from
    ret,         \* value returned by the caller's last completed call
    returned,    \* history: every pointer some call has returned
    closureArgs, \* history: tl of every run of the initialization closure
    nCompile,    \* history: number of executions of NewZkEVM
    nWrite,      \* history: number of writes to fullZkEvm
    panicked,    \* history: the initialization closure panicked
    crashed,     \* an unrecovered panic ended the process
    overlap,     \* history: the caller's current call started while the
                 \* closure of another caller was running
    \* ---- smartvectors ----------------------------------------------------
    svPc,        \* "off", "input", "built", "measured", "converted", "mutated"
    heap,        \* backing arrays of the slices: heap[a] is a sequence
    inV,         \* the slice v given to the constructor (an address)
    inPad,       \* the padding value given to the constructor
    inTarget,    \* the targetLen / n given to the constructor
    op,          \* name of the constructor that was applied
    sv,          \* the SmartVector it returned, or a panic
    dens,        \* result of Density(sv)
    regvec,      \* result of IntoRegVec(sv) (an address)
    snap,        \* history: the entries of sv when it was built
    \* ---- protocol/wizard -------------------------------------------------
    wzPc,        \* "off", "define", "compiled", "proved", "proverFailed", "verified"
    wzComp,      \* the compiled instance (CompiledIOP)
    wzWitA,      \* the witness: assignment of column A
    wzWitB,      \* the witness: assignment of column B
    wzProof,     \* the proof the prover emitted
    wzVerdict,   \* what Verify returned: "accept" or "invalid proof"
    \* ---- zkevm.fullCompilationSuite -------------------------------------
    suPc,        \* 0 when off, else index of the next pass; -1 after a failure
    suComp,      \* the compiled instance the passes transform
    suApplied,   \* history: the passes applied so far, in order
    \* ---- utils -----------------------------------------------------------
    utPc,        \* "off", "input", "done"
    utIn,        \* the function called and its arguments
    utHeap,      \* backing arrays of the slices: utHeap[a] is a sequence
    utOut,       \* what the call returned, or its panic
    utLocals,    \* the locals <<a, b>> of GCD while its loop runs
    \* ---- cmd.updateSetup ------------------------------------------------
    usPc,        \* "off", "input", "done"
    usForce,     \* the flag fForce
    usEnv,       \* what Compile, ReadSetupManifest, CircuitDigest, MakeSetup
                 \* and WriteTo answer during the call
    usOut,       \* the outcome of the call
    \* ---- cmd.cmdSetup ---------------------------------------------------
    csPc,        \* "off", "config", "dict", "parse", "assets", "base", "keys",
                 \* "agg", "done"
    csErr,       \* the error the command returned, "" for nil
    fCircuits,   \* the names of the --circuits list
    fDictPath,   \* the value of --dict
    cfgLimits,   \* cfg.TracesLimits and cfg.TracesLimitsLarge
    cfgNumProofs,\* cfg.Aggregation.NumProofs
    inCircuits,  \* the keys of the map inCircuits that are set to true
    csVisited,   \* the selected keys the first loop has gone through
    csLog,       \* history: the circuits updateSetup was called for
    csVks,       \* allowedVkForEmulation: numProofs of the keys read back
    csExec,      \* history: what the builder of each execution circuit got
    csMkdir,     \* history: the assets directory was created
    csSrs        \* history: the SRS store was opened

varsOnce == <<pc, arg, ncalls, done, mutex, fullZkEvm, instances, ret,
              returned, closureArgs, nCompile, nWrite, panicked, crashed,
              overlap>>

varsSV == <<svPc, heap, inV, inPad, inTarget, op, sv, dens, regvec, snap>>

varsWiz == <<wzPc, wzComp, wzWitA, wzWitB, wzProof, wzVerdict>>

varsSuite == <<suPc, suComp, suApplied>>

varsUtils == <<utPc, utIn, utHeap, utOut, utLocals>>

varsUpdate == <<usPc, usForce, usEnv, usOut>>

varsSetup == <<csPc, csErr, fCircuits, fDictPath, cfgLimits, cfgNumProofs,
               inCircuits, csVisited, csLog, csVks, csExec, csMkdir, csSrs>>

vars == <<varsOnce, varsSV, varsWiz, varsSuite, varsUtils, varsUpdate, varsSetup>>

\* what the steps of one part leave alone: the variables of the other parts
notOnce == <<varsSV, varsWiz, varsSuite, varsUtils, varsUpdate, varsSetup>>
notSV == <<varsOnce, varsWiz, varsSuite, varsUtils, varsUpdate, varsSetup>>
notWiz == <<varsOnce, varsSV, varsSuite, varsUtils, varsUpdate, varsSetup>>
notSuite == <<varsOnce, varsSV, varsWiz, varsUtils, varsUpdate, varsSetup>>
notUtils == <<varsOnce, varsSV, varsWiz, varsSuite, varsUpdate, varsSetup>>
notUpdate == <<varsOnce, varsSV, varsWiz, varsSuite, varsUtils, varsSetup>>
\* cmdSetup calls FullZkEvm, so its frame leaves the FullZkEvm part out
notSetup == <<varsSV, varsWiz, varsSuite, varsUtils, varsUpdate>>

(***************************************************************************)
(* zkevm.FullZkEvm                                                         *)
(***************************************************************************)
Callers == 1..NumCallers
\* a nil *config.TracesLimits
NilTL == 0
TracesLimits == 0..NumLimits
\* a nil *ZkEvm
NilPtr == 0
\* "no call has returned yet" marker of ret
NoRet == -1

\* positions at which the initialization closure is executing
InClosure == {"closure", "compile"}

InitOnce ==
    /\ pc = [c \in Callers |-> "idle"]
    /\ arg = [c \in Callers |-> NilTL]
    /\ ncalls = [c \in Callers |-> 0]
    /\ done = 0
    /\ mutex = 0
    /\ fullZkEvm = NilPtr
    /\ instances = << >>
    /\ ret = [c \in Callers |-> NoRet]
    /\ returned = {}
    /\ closureArgs = << >>
    /\ nCompile = 0
    /\ nWrite = 0
    /\ panicked = FALSE
    /\ crashed = FALSE
    /\ overlap = [c \in Callers |-> FALSE]

\* NewZkEVM(settings): allocates a fresh instance built from the limits tl
NewZkEVM(tl) == Append(instances, tl)

\* a goroutine enters FullZkEvm(tl)
Call(c, tl) ==
    /\ ~crashed
    /\ UNCHANGED notOnce
    /\ pc[c] = "idle"
    /\ ncalls[c] < MaxCalls
    /\ pc' = [pc EXCEPT ![c] = "do"]
    /\ arg' = [arg EXCEPT ![c] = tl]
    /\ ncalls' = [ncalls EXCEPT ![c] = @ + 1]
    /\ ret' = [ret EXCEPT ![c] = NoRet]
    /\ overlap' = [overlap EXCEPT ![c] = \E d \in Callers : pc[d] \in InClosure]
    /\ UNCHANGED <<done, mutex, fullZkEvm, instances, returned, closureArgs,
                   nCompile, nWrite, panicked, crashed>>

\* Once.Do fast path: if o.done.Load() == 0 { o.doSlow(f) }
OnceDoFast(c) ==
    /\ ~crashed
    /\ UNCHANGED notOnce
    /\ pc[c] = "do"
    /\ pc' = [pc EXCEPT ![c] = IF done = 1 THEN "return" ELSE "lock"]
    /\ UNCHANGED <<arg, ncalls, done, mutex, fullZkEvm, instances, ret,
                   returned, closureArgs, nCompile, nWrite, panicked, crashed,
                   overlap>>

\* broken variant: the slow path is entered without waiting for the mutex
OnceLockNoMutex(c) ==
    /\ ~crashed
    /\ UNCHANGED notOnce
    /\ pc[c] = "lock"
    /\ mutex' = c
    /\ pc' = [pc EXCEPT ![c] = "check"]
    /\ UNCHANGED <<arg, ncalls, done, fullZkEvm, instances, ret, returned,
                   closureArgs, nCompile, nWrite, panicked, crashed, overlap>>

\* doSlow: o.m.Lock()
OnceLock(c) ==
    /\ ~crashed
    /\ UNCHANGED notOnce
    /\ pc[c] = "lock"
    /\ mutex = 0
    /\ mutex' = c
    /\ pc' = [pc EXCEPT ![c] = "check"]
    /\ UNCHANGED <<arg, ncalls, done, fullZkEvm, instances, ret, returned,
                   closureArgs, nCompile, nWrite, panicked, crashed, overlap>>

\* broken variant: claims the guard before the closure has run
\* (if o.done.CompareAndSwap(0, 1) { f() })
OnceCheckCAS(c) ==
    /\ ~crashed
    /\ UNCHANGED notOnce
    /\ pc[c] = "check"
    /\ pc' = [pc EXCEPT ![c] = IF done = 0 THEN "closure" ELSE "unlock"]
    /\ done' = 1
    /\ UNCHANGED <<arg, ncalls, mutex, fullZkEvm, instances, ret, returned,
                   closureArgs, nCompile, nWrite, panicked, crashed, overlap>>

\* broken variant: done is not read again under the lock
OnceCheckNoRecheck(c) ==
    /\ ~crashed
    /\ UNCHANGED notOnce
    /\ pc[c] = "check"
    /\ pc' = [pc EXCEPT ![c] = "closure"]
    /\ UNCHANGED <<arg, ncalls, done, mutex, fullZkEvm, instances, ret,
                   returned, closureArgs, nCompile, nWrite, panicked, crashed,
                   overlap>>

\* doSlow, under the lock: if o.done.Load() == 0 { defer o.done.Store(1); f() }
OnceCheck(c) ==
    /\ ~crashed
    /\ UNCHANGED notOnce
    /\ pc[c] = "check"
    /\ pc' = [pc EXCEPT ![c] = IF done = 0 THEN "closure" ELSE "unlock"]
    /\ UNCHANGED <<arg, ncalls, done, mutex, fullZkEvm, instances, ret,
                   returned, closureArgs, nCompile, nWrite, panicked, crashed,
                   overlap>>

\* the closure builds settings from tl: tl.Rom, tl.BlockTransactions, ...
\* dereference tl, which panics when tl is nil; otherwise NewZkEVM starts
ClosureSettings(c) ==
    /\ ~crashed
    /\ UNCHANGED notOnce
    /\ pc[c] = "closure"
    /\ closureArgs' = Append(closureArgs, arg[c])
    /\ IF arg[c] = NilTL
          THEN /\ panicked' = TRUE
               /\ pc' = [pc EXCEPT ![c] = "storedoneP"]
               /\ UNCHANGED nCompile
          ELSE /\ nCompile' = nCompile + 1
               /\ pc' = [pc EXCEPT ![c] = "compile"]
               /\ UNCHANGED panicked
    /\ UNCHANGED <<arg, ncalls, done, mutex, fullZkEvm, instances, ret,
                   returned, nWrite, crashed, overlap>>

\* fullZkEvm = NewZkEVM(settings)
ClosureAssign(c) ==
    /\ ~crashed
    /\ UNCHANGED notOnce
    /\ pc[c] = "compile"
    /\ instances' = NewZkEVM(arg[c])
    /\ fullZkEvm' = Len(instances')
    /\ nWrite' = nWrite + 1
    /\ pc' = [pc EXCEPT ![c] = "storedone"]
    /\ UNCHANGED <<arg, ncalls, done, mutex, ret, returned, closureArgs,
                   nCompile, panicked, crashed, overlap>>

\* broken variant: o.done.Store(1) is not deferred, a panic skips it
OnceStoreDoneNotDeferred(c) ==
    /\ ~crashed
    /\ UNCHANGED notOnce
    /\ pc[c] \in {"storedone", "storedoneP"}
    /\ done' = IF pc[c] = "storedone" THEN 1 ELSE done
    /\ pc' = [pc EXCEPT ![c] = IF pc[c] = "storedone" THEN "unlock" ELSE "unlockP"]
    /\ UNCHANGED <<arg, ncalls, mutex, fullZkEvm, instances, ret, returned,
                   closureArgs, nCompile, nWrite, panicked, crashed, overlap>>

\* deferred o.done.Store(1): runs whether the closure returned or panicked
OnceStoreDone(c) ==
    /\ ~crashed
    /\ UNCHANGED notOnce
    /\ pc[c] \in {"storedone", "storedoneP"}
    /\ done' = 1
    /\ pc' = [pc EXCEPT ![c] = IF pc[c] = "storedone" THEN "unlock" ELSE "unlockP"]
    /\ UNCHANGED <<arg, ncalls, mutex, fullZkEvm, instances, ret, returned,
                   closureArgs, nCompile, nWrite, panicked, crashed, overlap>>

\* deferred o.m.Unlock()
OnceUnlock(c) ==
    /\ ~crashed
    /\ UNCHANGED notOnce
    /\ pc[c] \in {"unlock", "unlockP"}
    /\ mutex' = 0
    /\ pc' = [pc EXCEPT ![c] = IF pc[c] = "unlock" THEN "return" ELSE "panicked"]
    /\ UNCHANGED <<arg, ncalls, done, fullZkEvm, instances, ret, returned,
                   closureArgs, nCompile, nWrite, panicked, crashed, overlap>>

\* return fullZkEvm
Return(c) ==
    /\ ~crashed
    /\ UNCHANGED notOnce
    /\ pc[c] = "return"
    /\ ret' = [ret EXCEPT ![c] = fullZkEvm]
    /\ returned' = returned \cup {fullZkEvm}
    /\ pc' = [pc EXCEPT ![c] = "idle"]
    /\ UNCHANGED <<arg, ncalls, done, mutex, fullZkEvm, instances,
                   closureArgs, nCompile, nWrite, panicked, crashed, overlap>>

\* the panic leaves FullZkEvm and is recovered by the calling goroutine
PanicRecovered(c) ==
    /\ ~crashed
    /\ UNCHANGED notOnce
    /\ pc[c] = "panicked"
    /\ pc' = [pc EXCEPT ![c] = "idle"]
    /\ UNCHANGED <<arg, ncalls, done, mutex, fullZkEvm, instances, ret,
                   returned, closureArgs, nCompile, nWrite, panicked, crashed,
                   overlap>>

\* the panic leaves FullZkEvm and nothing recovers it: the process ends
PanicCrash(c) ==
    /\ ~crashed
    /\ UNCHANGED notOnce
    /\ pc[c] = "panicked"
    /\ crashed' = TRUE
    /\ UNCHANGED <<pc, arg, ncalls, done, mutex, fullZkEvm, instances, ret,
                   returned, closureArgs, nCompile, nWrite, panicked, overlap>>

NextOnce ==
    \E c \in Callers :
        \/ \E tl \in TracesLimits : Call(c, tl)
        \/ OnceDoFast(c)
        \/ OnceLock(c)
        \/ OnceCheck(c)
        \/ ClosureSettings(c)
        \/ ClosureAssign(c)
        \/ OnceStoreDone(c)
        \/ OnceUnlock(c)
        \/ Return(c)
        \/ PanicRecovered(c)
        \/ PanicCrash(c)

(***************************************************************************)
(* maths/common/smartvectors                                               *)
(***************************************************************************)
\* field.Element values of the model; field.Zero() is 0
Elem == 0..MaxElem
FieldZero == 0
\* every slice content of length 0..MaxLen
Vectors == UNION {[1..k -> Elem] : k \in 0..MaxLen}

\* the concrete variants of SmartVector
Variants == {"Constant", "PaddedCircularWindow", "Regular", "Rotated"}

\* A SmartVector value.  data is the address of the backing slice (the
\* Regular's slice, the window, the rotated Regular), 0 when there is none.
SmartVec(kind, data, pad, offset, totLen) ==
    [kind |-> kind, data |-> data, pad |-> pad, offset |-> offset,
     totLen |-> totLen, msg |-> ""]

\* outcome of a call that panicked, with the panic message
PanicSV(msg) ==
    [kind |-> "panic", data |-> 0, pad |-> 0, offset |-> 0, totLen |-> 0,
     msg |-> msg]

IsPanic(s) == s.kind = "panic"

\* no SmartVector built yet
NoSV == SmartVec("none", 0, 0, 0, 0)

\* Go's a % n, which truncates towards zero
GoRem(a, n) == IF a >= 0 THEN a % n ELSE 0 - ((0 - a) % n)

\* utils.PositiveMod
PositiveMod(a, n) ==
    LET res == GoRem(a, n)
    IN  IF res < 0 THEN res + n ELSE res

\* NewRegular(v): wraps the slice v itself (no copy); a zero length is rejected
NewRegular(h, v) ==
    IF Len(h[v]) = 0
       THEN PanicSV("zero or negative length are not allowed")
       ELSE SmartVec("Regular", v, 0, 0, 0)

\* NewConstant(x, n)
NewConstant(x, n) ==
    IF n <= 0
       THEN PanicSV("zero or negative length are not allowed")
       ELSE SmartVec("Constant", 0, x, 0, n)

\* NewPaddedCircularWindow(window, paddingVal, offset, totLen)
NewPaddedCircularWindow(h, window, paddingVal, offset, totLen) ==
    IF Len(h[window]) > totLen
       THEN PanicSV("the window size is too large")
    ELSE IF Len(h[window]) = totLen
       THEN PanicSV("the window should not take the full length")
    ELSE IF Len(h[window]) = 0
       THEN PanicSV("empty window")
    ELSE SmartVec("PaddedCircularWindow", window, paddingVal,
                  PositiveMod(offset, totLen), totLen)

\* NewRotated(reg, offset): a cyclic rotation view over the Regular reg
NewRotated(h, reg, offset) ==
    IF Len(h[reg]) = 0
       THEN PanicSV("got an empty vector")
    ELSE IF offset > Len(h[reg]) \/ 0 - offset > Len(h[reg])
       THEN PanicSV("len is less than the offset")
    ELSE SmartVec("Rotated", reg, 0, offset, 0)

\* SmartVector.Len
SVLen(h, s) ==
    CASE s.kind = "Regular" -> Len(h[s.data])
      [] s.kind = "Rotated" -> Len(h[s.data])
      [] OTHER -> s.totLen

\* SmartVector.Get(n), n counted from 0
Get(h, s, n) ==
    CASE s.kind = "Regular" -> h[s.data][n + 1]
      [] s.kind = "Constant" -> s.pad
      [] s.kind = "Rotated" ->
            h[s.data][PositiveMod(n + s.offset, Len(h[s.data])) + 1]
      [] s.kind = "PaddedCircularWindow" ->
            LET posFromWindowsPoV == PositiveMod(n - s.offset, s.totLen)
            IN  IF posFromWindowsPoV < Len(h[s.data])
                   THEN h[s.data][posFromWindowsPoV + 1]
                   ELSE s.pad

\* the entries of s, read one by one with Get
Values(h, s) == [i \in 1..SVLen(h, s) |-> Get(h, s, i - 1)]

\* outcome of WriteInSlice when the lengths differ
PanicSlice == <<-1>>

\* PaddedCircularWindow.WriteInSlice: entry i of the window, then of the
\* padding, goes to position (i + offset) mod totLen of the buffer
RECURSIVE WriteWindow(_, _, _, _)
WriteWindow(h, s, buff, i) ==
    IF i >= s.totLen
       THEN buff
       ELSE LET pos == PositiveMod(i + s.offset, s.totLen)
                val == IF i < Len(h[s.data]) THEN h[s.data][i + 1] ELSE s.pad
            IN  WriteWindow(h, s, [buff EXCEPT ![pos + 1] = val], i + 1)

\* SmartVector.WriteInSlice(buff): the content of buff afterwards; panics
\* unless len(buff) == Len()
WriteInSlice(h, s, buff) ==
    IF Len(buff) # SVLen(h, s)
       THEN PanicSlice
       ELSE CASE s.kind = "Regular" -> h[s.data]
              [] s.kind = "Constant" -> [i \in 1..Len(buff) |-> s.pad]
              [] s.kind = "Rotated" ->
                    LET n == Len(h[s.data])
                        k == PositiveMod(s.offset, n)
                    IN  SubSeq(h[s.data], k + 1, n) \o SubSeq(h[s.data], 1, k)
              [] s.kind = "PaddedCircularWindow" -> WriteWindow(h, s, buff, 0)

\* make([]field.Element, n)
MakeSlice(n) == [i \in 1..n |-> FieldZero]

\* broken variant: returns the Regular's own slice instead of a copy
IntoRegVecAlias(h, s) ==
    IF s.kind = "Regular"
       THEN [heap |-> h, res |-> s.data]
       ELSE LET written == WriteInSlice(h, s, MakeSlice(SVLen(h, s)))
            IN  IF written = PanicSlice
                   THEN [heap |-> h, res |-> -1]
                   ELSE [heap |-> Append(h, written), res |-> Len(h) + 1]

\* IntoRegVec(s): the heap afterwards and the address of the slice returned
\* (-1 when WriteInSlice panicked)
IntoRegVec(h, s) ==
    LET written == WriteInSlice(h, s, MakeSlice(SVLen(h, s)))
    IN  IF written = PanicSlice
           THEN [heap |-> h, res |-> -1]
           ELSE [heap |-> Append(h, written), res |-> Len(h) + 1]

\* broken variant: the empty input is not turned into a Constant
LeftPaddedNoConstant(h, v, padding, targetLen) ==
    IF Len(h[v]) > targetLen
       THEN PanicSV("target length must be less than")
    ELSE IF Len(h[v]) = targetLen
       THEN NewRegular(h, v)
    ELSE NewPaddedCircularWindow(h, v, padding, targetLen - Len(h[v]), targetLen)

\* LeftPadded(v, padding, targetLen)
LeftPadded(h, v, padding, targetLen) ==
    IF Len(h[v]) > targetLen
       THEN PanicSV("target length must be less than")
    ELSE IF Len(h[v]) = targetLen
       THEN NewRegular(h, v)
    ELSE IF Len(h[v]) = 0
       THEN NewConstant(padding, targetLen)
    ELSE NewPaddedCircularWindow(h, v, padding, targetLen - Len(h[v]), targetLen)

\* broken variant: the window is placed as LeftPadded places it
RightPaddedAsLeft(h, v, padding, targetLen) ==
    IF Len(h[v]) > targetLen
       THEN PanicSV("target length must be less than")
    ELSE IF Len(h[v]) = targetLen
       THEN NewRegular(h, v)
    ELSE IF Len(h[v]) = 0
       THEN NewConstant(padding, targetLen)
    ELSE NewPaddedCircularWindow(h, v, padding, targetLen - Len(h[v]), targetLen)

\* broken variant: the length check against targetLen is missing
RightPaddedNoLengthCheck(h, v, padding, targetLen) ==
    IF Len(h[v]) = targetLen
       THEN NewRegular(h, v)
    ELSE IF Len(h[v]) = 0
       THEN NewConstant(padding, targetLen)
    ELSE NewPaddedCircularWindow(h, v, padding, 0, targetLen)

\* RightPadded(v, padding, targetLen)
RightPadded(h, v, padding, targetLen) ==
    IF Len(h[v]) > targetLen
       THEN PanicSV("target length must be less than")
    ELSE IF Len(h[v]) = targetLen
       THEN NewRegular(h, v)
    ELSE IF Len(h[v]) = 0
       THEN NewConstant(padding, targetLen)
    ELSE NewPaddedCircularWindow(h, v, padding, 0, targetLen)

\* RightZeroPadded(v, targetLen)
RightZeroPadded(h, v, targetLen) == RightPadded(h, v, FieldZero, targetLen)

\* LeftZeroPadded(v, targetLen)
LeftZeroPadded(h, v, targetLen) == LeftPadded(h, v, FieldZero, targetLen)

\* outcome of Density when it panics ("unexpected type")
DensityPanic == -1
\* Density not computed yet
NoDensity == -2

\* broken variant: reports the padded length of a window
DensityTotLen(h, v) ==
    CASE v.kind = "Constant" -> 0
      [] v.kind = "PaddedCircularWindow" -> v.totLen
      [] v.kind = "Regular" -> Len(h[v.data])
      [] v.kind = "Rotated" -> Len(h[v.data])
      [] OTHER -> DensityPanic

\* Density(v)
Density(h, v) ==
    CASE v.kind = "Constant" -> 0
      [] v.kind = "PaddedCircularWindow" -> Len(h[v.data])
      [] v.kind = "Regular" -> Len(h[v.data])
      [] v.kind = "Rotated" -> Len(h[v.data])
      [] OTHER -> DensityPanic

\* broken variant: the Regular is built without going through NewRegular
AllocateRegularUnchecked(h, n) ==
    LET h2 == Append(h, MakeSlice(n))
    IN  [heap |-> h2, sv |-> SmartVec("Regular", Len(h2), 0, 0, 0)]

\* AllocateRegular(n): the heap afterwards and the vector returned
AllocateRegular(h, n) ==
    LET h2 == Append(h, MakeSlice(n))
    IN  [heap |-> h2, sv |-> NewRegular(h2, Len(h2))]

\* the smartvectors part before any input is chosen
OffSV ==
    /\ svPc = "off"
    /\ heap = << >>
    /\ inV = 0
    /\ inPad = 0
    /\ inTarget = 0
    /\ op = ""
    /\ sv = NoSV
    /\ dens = NoDensity
    /\ regvec = 0
    /\ snap = << >>

\* the inputs of a constructor call: a slice v, a padding value, a length
InitSV ==
    /\ svPc = "input"
    /\ \E v \in Vectors : heap = <<v>>
    /\ inV = 1
    /\ inPad \in Elem
    /\ inTarget \in 0..MaxLen
    /\ op = ""
    /\ sv = NoSV
    /\ dens = NoDensity
    /\ regvec = 0
    /\ snap = << >>

\* a constructor named name returned result, leaving the heap as newHeap
Built(name, result, newHeap) ==
    /\ svPc = "input"
    /\ svPc' = "built"
    /\ UNCHANGED notSV
    /\ op' = name
    /\ sv' = result
    /\ heap' = newHeap
    /\ snap' = IF result.kind \in Variants THEN Values(newHeap, result) ELSE << >>
    /\ UNCHANGED <<inV, inPad, inTarget, dens, regvec>>

DoLeftPadded ==
    /\ svPc = "input"
    /\ Built("LeftPadded", LeftPadded(heap, inV, inPad, inTarget), heap)

DoRightPadded ==
    /\ svPc = "input"
    /\ Built("RightPadded", RightPadded(heap, inV, inPad, inTarget), heap)

DoLeftZeroPadded ==
    /\ svPc = "input"
    /\ Built("LeftZeroPadded", LeftZeroPadded(heap, inV, inTarget), heap)

DoRightZeroPadded ==
    /\ svPc = "input"
    /\ Built("RightZeroPadded", RightZeroPadded(heap, inV, inTarget), heap)

DoAllocateRegular ==
    /\ svPc = "input"
    /\ LET a == AllocateRegular(heap, inTarget)
       IN  Built("AllocateRegular", a.sv, a.heap)

\* Rand(n) / PseudoRand(rng, n): NewRegular of n entries drawn by the generator
DoRand(w) ==
    /\ svPc = "input"
    /\ Len(w) = inTarget
    /\ LET h2 == Append(heap, w)
       IN  Built("Rand", NewRegular(h2, Len(h2)), h2)

\* ForTest(xs...): NewRegular of a fresh slice holding the literals xs
DoForTest ==
    /\ svPc = "input"
    /\ LET h2 == Append(heap, heap[inV])
       IN  Built("ForTest", NewRegular(h2, Len(h2)), h2)

DoNewConstant ==
    /\ svPc = "input"
    /\ Built("NewConstant", NewConstant(inPad, inTarget), heap)

DoNewRotated(k) ==
    /\ svPc = "input"
    /\ Built("NewRotated", NewRotated(heap, inV, k), heap)

DoNewPaddedCircularWindow(k) ==
    /\ inTarget > 0
    /\ Built("NewPaddedCircularWindow",
             NewPaddedCircularWindow(heap, inV, inPad, k, inTarget), heap)

\* a SmartVector implementation other than the four variants of the package
DoOtherVariant ==
    /\ inTarget > 0
    /\ Built("Other", SmartVec("Other", 0, 0, 0, inTarget), heap)

\* Density(sv) on a vector that was returned
DoDensity ==
    /\ UNCHANGED notSV
    /\ svPc = "built"
    /\ ~IsPanic(sv)
    /\ dens' = Density(heap, sv)
    /\ svPc' = "measured"
    /\ UNCHANGED <<heap, inV, inPad, inTarget, op, sv, regvec, snap>>

\* regvec := IntoRegVec(sv) on a vector of one of the four variants
DoIntoRegVec ==
    /\ UNCHANGED notSV
    /\ svPc = "built"
    /\ sv.kind \in Variants
    /\ LET r == IntoRegVec(heap, sv)
       IN  /\ heap' = r.heap
           /\ regvec' = r.res
    /\ svPc' = "converted"
    /\ UNCHANGED <<inV, inPad, inTarget, op, sv, dens, snap>>

\* regvec[i] = x, by the caller that owns the slice IntoRegVec returned
DoMutate(i, x) ==
    /\ UNCHANGED notSV
    /\ svPc = "converted"
    /\ regvec >= 1
    /\ i \in 1..Len(heap[regvec])
    /\ x # heap[regvec][i]
    /\ heap' = [heap EXCEPT ![regvec][i] = x]
    /\ svPc' = "mutated"
    /\ UNCHANGED <<inV, inPad, inTarget, op, sv, dens, regvec, snap>>

NextSV ==
    \/ DoLeftPadded
    \/ DoRightPadded
    \/ DoLeftZeroPadded
    \/ DoRightZeroPadded
    \/ DoAllocateRegular
    \/ \E w \in Vectors : DoRand(w)
    \/ DoForTest
    \/ DoNewConstant
    \/ \E k \in (0 - MaxLen)..MaxLen : DoNewRotated(k)
    \/ \E k \in (0 - MaxLen)..MaxLen : DoNewPaddedCircularWindow(k)
    \/ DoOtherVariant
    \/ DoDensity
    \/ DoIntoRegVec
    \/ \E i \in 1..MaxLen, x \in Elem : DoMutate(i, x)

(***************************************************************************)
(* protocol/wizard: Compile, Prove, Verify on a small definition           *)
(***************************************************************************)
\* the field of the small protocol: integers modulo WizFieldSize
WizElem == 0..(WizFieldSize - 1)
\* a column assignment of the declared length
WizColumns == [1..WizColLen -> WizElem]

\* The definition declares column A in round 0, coin c and column B in
\* round 1, and registers any of these queries:
\*   "binary" (round 0, local) : A[i] * (A[i] - 1) = 0 for every row i
\*   "scaled" (round 1, global): B[i] = c * A[i]       for every row i
WizQueryIds == {"binary", "scaled"}

\* sum of the entries col[1..n] (used by the broken variant of VerifierCoin)
RECURSIVE WizSum(_, _)
WizSum(col, n) == IF n = 0 THEN 0 ELSE col[n] + WizSum(col, n - 1)

\* weighted sum of the entries: position i counts i times
RECURSIVE WizWeighted(_, _)
WizWeighted(col, n) == IF n = 0 THEN 0 ELSE n * col[n] + WizWeighted(col, n - 1)

\* the coin of round 1: a deterministic function of everything revealed in
\* round 0, that is of column A
FiatShamirCoin(colA) == (1 + WizWeighted(colA, WizColLen)) % WizFieldSize

\* whether query q holds on the values a, b of the columns and the coin c
QueryHolds(q, a, b, c) ==
    CASE q = "binary" ->
            \A i \in 1..WizColLen : (a[i] * (a[i] + WizFieldSize - 1)) % WizFieldSize = 0
      [] q = "scaled" ->
            \A i \in 1..WizColLen : b[i] = (c * a[i]) % WizFieldSize

\* wizard.Compile(define, dummy.Compile): the define closure registers the
\* queries qs; the dummy pass sends every column to the verifier in the proof
WizCompile(qs) == [queries |-> qs, passes |-> <<"dummy">>, public |-> {"A", "B"}]

\* no proof was produced
NoProof == [a |-> << >>, b |-> << >>]

\* wizard.Prove(comp, prover): round 0 assigns A, round 1 derives the coin
\* from the transcript and assigns B; every query of comp is evaluated on the
\* assignment and a query that does not hold is fatal; otherwise the proof
\* carries the public columns
WizProve(comp, a, b) ==
    LET coin == FiatShamirCoin(a)
        ok == \A q \in comp.queries : QueryHolds(q, a, b, coin)
    IN  [ok |-> ok, proof |-> IF ok THEN [a |-> a, b |-> b] ELSE NoProof]

\* broken variant: the verifier digests the transcript without the row
\* weights the prover uses
VerifierCoinUnweighted(proof) == (1 + WizSum(proof.a, WizColLen)) % WizFieldSize

\* the coin as the verifier replays it from the proof's round-0 columns
VerifierCoin(proof) == FiatShamirCoin(proof.a)

\* wizard.Verify(comp, proof): replays the coin from the proof and rechecks
\* every query of comp on the values of the proof; TRUE means no error
WizVerify(comp, proof) ==
    \A q \in comp.queries : QueryHolds(q, proof.a, proof.b, VerifierCoin(proof))

\* the wizard part before any run
OffWiz ==
    /\ wzPc = "off"
    /\ wzComp = WizCompile({})
    /\ wzWitA = << >>
    /\ wzWitB = << >>
    /\ wzProof = NoProof
    /\ wzVerdict = "none"

\* a run starts with the witness the prover step will assign
InitWiz ==
    /\ wzPc = "define"
    /\ wzComp = WizCompile({})
    /\ wzWitA \in WizColumns
    /\ wzWitB \in WizColumns
    /\ wzProof = NoProof
    /\ wzVerdict = "none"

\* comp := wizard.Compile(definer, dummy.Compile)
DoCompile(qs) ==
    /\ UNCHANGED notWiz
    /\ wzPc = "define"
    /\ wzComp' = WizCompile(qs)
    /\ wzPc' = "compiled"
    /\ UNCHANGED <<wzWitA, wzWitB, wzProof, wzVerdict>>

\* proof := wizard.Prove(comp, prover)
DoProve ==
    /\ UNCHANGED notWiz
    /\ wzPc = "compiled"
    /\ LET r == WizProve(wzComp, wzWitA, wzWitB)
       IN  /\ wzProof' = r.proof
           /\ wzPc' = IF r.ok THEN "proved" ELSE "proverFailed"
    /\ UNCHANGED <<wzComp, wzWitA, wzWitB, wzVerdict>>

\* wizard.Verify(comp, proof) on the compiled instance the proof was made for
DoVerify ==
    /\ UNCHANGED notWiz
    /\ wzPc = "proved"
    /\ wzVerdict' = IF WizVerify(wzComp, wzProof) THEN "accept" ELSE "invalid proof"
    /\ wzPc' = "verified"
    /\ UNCHANGED <<wzComp, wzWitA, wzWitB, wzProof>>

NextWiz ==
    \/ \E qs \in SUBSET WizQueryIds : DoCompile(qs)
    \/ DoProve
    \/ DoVerify

(***************************************************************************)
(* zkevm.fullCompilationSuite: the ordered list of compilation passes and  *)
(* its application, pass after pass, to a compiled instance.               *)
(***************************************************************************)
\* var sisInstance = ringsis.Params{LogTwoBound: 16, LogTwoDegree: 6}
sisInstance == [LogTwoBound |-> 16, LogTwoDegree |-> 6]

\* the parameter record of a pass that takes no parameter
NoParams == [none |-> TRUE]

\* mimc.CompileMiMC
CompileMiMC == [kind |-> "CompileMiMC", params |-> NoParams]

\* compiler.Arcane(minBound, maxBound, false)
Arcane(minBound, maxBound) ==
    [kind |-> "Arcane",
     params |-> [minBound |-> minBound, maxBound |-> maxBound, noLog |-> FALSE]]

\* vortex.WithSISParams(&sisInstance)
WithSISParams(p) == [hash |-> "SIS", sis |-> p]

\* vortex.ReplaceSisByMimc()
ReplaceSisByMimc == [hash |-> "MiMC", sis |-> NoParams]

\* vortex.Compile(fold, vortex.ForceNumOpenedColumns(opened), option)
VortexCompile(fold, opened, option) ==
    [kind |-> "Vortex",
     params |-> [fold |-> fold, opened |-> opened, option |-> option]]

\* selfrecursion.SelfRecurse
SelfRecurse == [kind |-> "SelfRecurse", params |-> NoParams]

\* cleanup.CleanUp
CleanUp == [kind |-> "CleanUp", params |-> NoParams]

\* the elements of fullCompilationSuite, in the order of the source
suitePasses ==
    << CompileMiMC,
       Arcane(2^10, 2^19),
       VortexCompile(2, 256, WithSISParams(sisInstance)),
       \* first round of self-recursion
       SelfRecurse,
       CleanUp,
       CompileMiMC,
       Arcane(2^10, 2^18),
       VortexCompile(2, 256, WithSISParams(sisInstance)),
       \* second round of self-recursion
       SelfRecurse,
       CleanUp,
       CompileMiMC,
       Arcane(2^10, 2^16),
       VortexCompile(8, 64, WithSISParams(sisInstance)),
       \* fourth round of self-recursion
       SelfRecurse,
       CleanUp,
       CompileMiMC,
       Arcane(2^10, 2^13),
       VortexCompile(8, 64, ReplaceSisByMimc) >>

\* broken variant: the first CleanUp is missing
suiteWithoutCleanUp == SubSeq(suitePasses, 1, 4) \o SubSeq(suitePasses, 6, 18)

\* broken variant: the third Arcane keeps the maxBound of the second
suiteFlatBound == [suitePasses EXCEPT ![12] = Arcane(2^10, 2^18)]

\* broken variant: the third Vortex step already replaces SIS by MiMC
suiteEarlyMimc ==
    [suitePasses EXCEPT ![13] = VortexCompile(8, 64, ReplaceSisByMimc)]

\* fullCompilationSuite = compilationSuite{...}
fullCompilationSuite == suitePasses

\* the compiled instances the suite may be applied to
SuiteComps ==
    [opaqueHash : BOOLEAN, size : {2^k : k \in 0..MaxLogSize},
     commitment : {"none"}, dead : {FALSE}, layers : {0}]

\* the position is on a pass of the given kind
AtPass(kind) ==
    /\ suPc \in 1..Len(fullCompilationSuite)
    /\ fullCompilationSuite[suPc].kind = kind

\* the pass at the position has been applied
Advance ==
    /\ suApplied' = Append(suApplied, fullCompilationSuite[suPc])
    /\ suPc' = suPc + 1

\* the suite part before any run
OffSuite ==
    /\ suPc = 0
    /\ suApplied = << >>
    /\ suComp = [opaqueHash |-> FALSE, size |-> 1, commitment |-> "none",
                 dead |-> FALSE, layers |-> 0]

\* a compilation starts on the instance the define function produced
InitSuite ==
    /\ suPc = 1
    /\ suApplied = << >>
    /\ suComp \in SuiteComps

\* MiMC compile: every hash call becomes polynomial constraints
ApplyCompileMiMC ==
    /\ UNCHANGED notSuite
    /\ AtPass("CompileMiMC")
    /\ suComp' = [suComp EXCEPT !.opaqueHash = FALSE]
    /\ Advance

\* Arcane: column lengths are brought within [minBound, maxBound]
ApplyArcane ==
    /\ UNCHANGED notSuite
    /\ AtPass("Arcane")
    /\ LET b == fullCompilationSuite[suPc].params
       IN  suComp' = [suComp EXCEPT !.size =
                         IF @ < b.minBound THEN b.minBound
                         ELSE IF @ > b.maxBound THEN b.maxBound ELSE @]
    /\ Advance

\* Vortex: the columns are committed to with the configured hash
ApplyVortex ==
    /\ UNCHANGED notSuite
    /\ AtPass("Vortex")
    /\ suComp' = [suComp EXCEPT
                     !.commitment = fullCompilationSuite[suPc].params.option.hash]
    /\ Advance

\* SelfRecurse: the verifier of the previous layer becomes a new circuit; it
\* needs the SIS commitment of the Vortex step before it, else compiling fails
ApplySelfRecurse ==
    /\ UNCHANGED notSuite
    /\ AtPass("SelfRecurse")
    /\ IF suComp.commitment = "SIS"
       THEN /\ suComp' = [suComp EXCEPT !.opaqueHash = TRUE, !.dead = TRUE,
                                        !.commitment = "none",
                                        !.layers = @ + 1]
            /\ Advance
       ELSE /\ suPc' = -1
            /\ UNCHANGED <<suComp, suApplied>>

\* CleanUp: the columns and constraints the recursion left dead are removed
ApplyCleanUp ==
    /\ UNCHANGED notSuite
    /\ AtPass("CleanUp")
    /\ suComp' = [suComp EXCEPT !.dead = FALSE]
    /\ Advance

NextSuite ==
    \/ ApplyCompileMiMC
    \/ ApplyArcane
    \/ ApplyVortex
    \/ ApplySelfRecurse
    \/ ApplyCleanUp

(***************************************************************************)
(* utils.IsPowerOfTwo, utils.NextPowerOfTwo and utils.RightPad.  An int is *)
(* a word of IntBits bits in two's complement, bit 0 the least significant.*)
(***************************************************************************)
Word == [0..(IntBits - 1) -> {0, 1}]

\* the int 0
ZeroWord == [i \in 0..(IntBits - 1) |-> 0]

\* 1 << k
OneShl(k) == [i \in 0..(IntBits - 1) |-> IF i = k THEN 1 ELSE 0]

\* v++ : the lowest 0 bit and every 1 bit below it flip; wraps around
Inc(v) ==
    [i \in 0..(IntBits - 1) |->
        IF \A j \in 0..(i - 1) : v[j] = 1 THEN 1 - v[i] ELSE v[i]]

\* v-- : the lowest 1 bit and every 0 bit below it flip; wraps around
Dec(v) ==
    [i \in 0..(IntBits - 1) |->
        IF \A j \in 0..(i - 1) : v[j] = 0 THEN 1 - v[i] ELSE v[i]]

\* a | b
BitOr(a, b) == [i \in 0..(IntBits - 1) |-> IF a[i] = 1 \/ b[i] = 1 THEN 1 ELSE 0]

\* a & b
BitAnd(a, b) == [i \in 0..(IntBits - 1) |-> IF a[i] = 1 /\ b[i] = 1 THEN 1 ELSE 0]

\* v >> s on a signed int: the sign bit fills the vacated positions
Shr(v, s) ==
    [i \in 0..(IntBits - 1) |->
        IF i + s <= IntBits - 1 THEN v[i + s] ELSE v[IntBits - 1]]

\* a > b on signed ints
Greater(a, b) ==
    IF a[IntBits - 1] # b[IntBits - 1]
    THEN a[IntBits - 1] = 0
    ELSE \E i \in 0..(IntBits - 1) :
            /\ a[i] = 1 /\ b[i] = 0
            /\ \A j \in (i + 1)..(IntBits - 1) : a[j] = b[j]

\* the value of a panic(...) that unwinds out of a function of utils
PanicUtils(msg) == [panic |-> TRUE, msg |-> msg]

\* the value a function of utils returns normally
ReturnUtils(v) == [panic |-> FALSE, val |-> v]

\* func IsPowerOfTwo(n): n&(n-1) == 0 && n > 0
IsPowerOfTwo(n) == BitAnd(n, Dec(n)) = ZeroWord /\ Greater(n, ZeroWord)

\* broken variant: the step v |= v >> (1 << 5) is missing
NextPowerOfTwoNoShift32(in) ==
    IF Greater(in, OneShl(62))
    THEN PanicUtils("Input is too large")
    ELSE LET v0 == Dec(in)
             v1 == BitOr(v0, Shr(v0, 1))
             v2 == BitOr(v1, Shr(v1, 2))
             v3 == BitOr(v2, Shr(v2, 4))
             v4 == BitOr(v3, Shr(v3, 8))
             v5 == BitOr(v4, Shr(v4, 16))
         IN  ReturnUtils(Inc(v5))

\* func NextPowerOfTwo(in)
NextPowerOfTwo(in) ==
    IF Greater(in, OneShl(62))
    THEN PanicUtils("Input is too large")
    ELSE LET v0 == Dec(in)
             v1 == BitOr(v0, Shr(v0, 1))
             v2 == BitOr(v1, Shr(v1, 2))
             v3 == BitOr(v2, Shr(v2, 4))
             v4 == BitOr(v3, Shr(v3, 8))
             v5 == BitOr(v4, Shr(v4, 16))
             v6 == BitOr(v5, Shr(v5, 32))
         IN  ReturnUtils(Inc(v6))

\* w + d for a small d of either sign
RECURSIVE AddSmall(_, _)
AddSmall(w, d) ==
    IF d = 0 THEN w
    ELSE IF d > 0 THEN AddSmall(Inc(w), d - 1)
    ELSE AddSmall(Dec(w), d + 1)

\* the ints NextPowerOfTwo is applied to: 0 and every 2^k + d, which covers
\* the powers of two, their neighbours, 2^62, the larger and the negative ints
PowerInputs ==
    {ZeroWord} \cup
    {AddSmall(OneShl(k), d) : k \in 0..(IntBits - 1), d \in (0 - MaxDelta)..MaxDelta}

\* for len(res) < n { res = append(res, padWith) }
RECURSIVE RightPadLoop(_, _, _)
RightPadLoop(res, n, padWith) ==
    IF Len(res) < n THEN RightPadLoop(Append(res, padWith), n, padWith) ELSE res

\* func RightPad(s, n, padWith) on the heap h, s being an address of h: the
\* result is the heap with the array of res allocated, and the address of res
RightPad(h, s, n, padWith) ==
    IF n < 0
    THEN PanicUtils("makeslice: cap out of range")
    ELSE LET res == h[s]
         IN  ReturnUtils([heap |-> Append(h, RightPadLoop(res, n, padWith)),
                          res |-> Len(h) + 1])

\* the utils part before any call
OffUtils ==
    /\ utPc = "off"
    /\ utIn = [fn |-> "none"]
    /\ utHeap = << >>
    /\ utOut = [panic |-> FALSE]
    /\ utLocals = <<0, 0>>

\* one call of a function of utils on arbitrary arguments
InitUtils ==
    /\ utPc = "input"
    /\ utOut = [panic |-> FALSE]
    /\ \/ /\ utIn \in [fn : {"NextPowerOfTwo"}, in : PowerInputs]
          /\ utHeap = << >>
          /\ utLocals = <<0, 0>>
       \/ /\ utIn \in [fn : {"RightPad"}, s : {1}, n : (0 - 1)..(MaxLen + 1),
                       padWith : Elem]
          /\ utHeap \in {<<v>> : v \in Vectors}
          /\ utLocals = <<0, 0>>
       \/ /\ utIn \in [fn : {"GCD"}, a : (0 - MaxGcd)..MaxGcd,
                       b : (0 - MaxGcd)..MaxGcd]
          /\ utHeap = << >>
          /\ utLocals = <<utIn.a, utIn.b>>

\* out := NextPowerOfTwo(in)
DoNextPowerOfTwo ==
    /\ UNCHANGED notUtils
    /\ utPc = "input"
    /\ utIn.fn = "NextPowerOfTwo"
    /\ utOut' = NextPowerOfTwo(utIn.in)
    /\ utPc' = "done"
    /\ UNCHANGED <<utIn, utHeap, utLocals>>

\* res := RightPad(s, n, padWith)
DoRightPad ==
    /\ UNCHANGED notUtils
    /\ utPc = "input"
    /\ utIn.fn = "RightPad"
    /\ LET r == RightPad(utHeap, utIn.s, utIn.n, utIn.padWith)
       IN  IF r.panic
           THEN utOut' = r /\ UNCHANGED utHeap
           ELSE utOut' = ReturnUtils(r.val.res) /\ utHeap' = r.val.heap
    /\ utPc' = "done"
    /\ UNCHANGED <<utIn, utLocals>>

\* the body of the loop of GCD: if a > b { a -= b } else { b -= a }
GCDStep(a, b) == IF a > b THEN <<a - b, b>> ELSE <<a, b - a>>

\* the locals stay in the range the model follows
GCDInRange(ab) ==
    /\ ab[1] \in (0 - 2 * MaxGcd)..(2 * MaxGcd)
    /\ ab[2] \in (0 - 2 * MaxGcd)..(2 * MaxGcd)

\* for a != b { ... }: one iteration
GCDIterate ==
    /\ UNCHANGED notUtils
    /\ utPc \in {"input", "loop"}
    /\ utIn.fn = "GCD"
    /\ utLocals[1] # utLocals[2]
    /\ GCDInRange(GCDStep(utLocals[1], utLocals[2]))
    /\ utLocals' = GCDStep(utLocals[1], utLocals[2])
    /\ utPc' = "loop"
    /\ UNCHANGED <<utIn, utHeap, utOut>>

\* the loop ends when a == b: return a
GCDReturn ==
    /\ UNCHANGED notUtils
    /\ utPc \in {"input", "loop"}
    /\ utIn.fn = "GCD"
    /\ utLocals[1] = utLocals[2]
    /\ utOut' = ReturnUtils(utLocals[1])
    /\ utPc' = "done"
    /\ UNCHANGED <<utIn, utHeap, utLocals>>

NextUtils ==
    \/ DoNextPowerOfTwo
    \/ DoRightPad
    \/ GCDIterate
    \/ GCDReturn

(***************************************************************************)
(* cmd.updateSetup: compile the circuit, skip the setup when the manifest  *)
(* on disk matches, else run the setup and write the assets.               *)
(***************************************************************************)
\* the checksums a manifest or a circuit digest may be
Digests == 1..NumDigests

\* circuits.ReadSetupManifest(manifestPath) returned an error
Unreadable == 0

\* what the calls made by updateSetup answer: builder.Compile succeeds or not,
\* the manifest is unreadable or holds a circuit checksum, CircuitDigest
\* succeeds or not and yields a digest, MakeSetup and WriteTo succeed or not
SetupEnvs ==
    [compileOk : BOOLEAN, manifest : {Unreadable} \cup Digests,
     digestOk : BOOLEAN, digest : Digests, setupOk : BOOLEAN, writeOk : BOOLEAN]

\* the outcome of updateSetup: its error ("" for nil) and the calls it made
SetupOutcome(err, skipped, ranSetup, wrote) ==
    [err |-> err, skipped |-> skipped, ranSetup |-> ranSetup, wrote |-> wrote]

\* broken variant: the manifest is consulted even when fForce is set
updateSetupIgnoringForce(force, env) ==
    IF ~env.compileOk
    THEN SetupOutcome("failed to compile circuit", FALSE, FALSE, FALSE)
    ELSE IF env.manifest # Unreadable /\ ~env.digestOk
    THEN SetupOutcome("failed to compute circuit digest", FALSE, FALSE, FALSE)
    ELSE IF env.manifest # Unreadable /\ env.manifest = env.digest
    THEN SetupOutcome("", TRUE, FALSE, FALSE)
    ELSE IF ~env.setupOk
    THEN SetupOutcome("failed to setup circuit", FALSE, TRUE, FALSE)
    ELSE SetupOutcome(IF env.writeOk THEN "" ELSE "write failed",
                      FALSE, TRUE, TRUE)

\* func updateSetup(ctx, cfg, srsProvider, circuit, builder, extraFlags)
updateSetup(force, env) ==
    IF ~env.compileOk
    THEN SetupOutcome("failed to compile circuit", FALSE, FALSE, FALSE)
    ELSE IF ~force /\ env.manifest # Unreadable /\ ~env.digestOk
    THEN SetupOutcome("failed to compute circuit digest", FALSE, FALSE, FALSE)
    ELSE IF ~force /\ env.manifest # Unreadable /\ env.manifest = env.digest
    THEN SetupOutcome("", TRUE, FALSE, FALSE)
    ELSE IF ~env.setupOk
    THEN SetupOutcome("failed to setup circuit", FALSE, TRUE, FALSE)
    ELSE SetupOutcome(IF env.writeOk THEN "" ELSE "write failed",
                      FALSE, TRUE, TRUE)

\* the updateSetup part before any call
OffUpdate ==
    /\ usPc = "off"
    /\ usForce = FALSE
    /\ usEnv = [compileOk |-> TRUE, manifest |-> Unreadable, digestOk |-> TRUE,
                digest |-> 1, setupOk |-> TRUE, writeOk |-> TRUE]
    /\ usOut = SetupOutcome("", FALSE, FALSE, FALSE)

\* one call of updateSetup under an arbitrary flag and environment
InitUpdate ==
    /\ usPc = "input"
    /\ usForce \in BOOLEAN
    /\ usEnv \in SetupEnvs
    /\ usOut = SetupOutcome("", FALSE, FALSE, FALSE)

\* err := updateSetup(...)
DoUpdateSetup ==
    /\ UNCHANGED notUpdate
    /\ usPc = "input"
    /\ usOut' = updateSetup(usForce, usEnv)
    /\ usPc' = "done"
    /\ UNCHANGED <<usForce, usEnv>>

NextUpdate ==
    \/ DoUpdateSetup

(***************************************************************************)
(* cmd.cmdSetup: the `setup` command.  One run of the command, from the    *)
(* reading of the config file to its return.                               *)
(***************************************************************************)
ExecutionCircuitID == "execution"
ExecutionLargeCircuitID == "execution-large"
BlobDecompressionV0CircuitID == "blob-decompression-v0"
BlobDecompressionV1CircuitID == "blob-decompression-v1"
AggregationCircuitID == "aggregation"
EmulationCircuitID == "emulation"
EmulationDummyCircuitID == "emulation-dummy"

\* var allCircuits = []string{...}
allCircuits ==
    {ExecutionCircuitID, ExecutionLargeCircuitID, BlobDecompressionV0CircuitID,
     BlobDecompressionV1CircuitID, AggregationCircuitID, EmulationCircuitID,
     EmulationDummyCircuitID}

\* a name of the --circuits list that is no key of inCircuits
UnknownCircuit == "no-such-circuit"

\* the circuits the first loop sets up; it skips the others (default: continue)
BaseCircuits ==
    {ExecutionCircuitID, ExecutionLargeCircuitID, BlobDecompressionV0CircuitID,
     BlobDecompressionV1CircuitID, EmulationDummyCircuitID}

\* the values of --dict: not given, a path without a file, a path of a file
DictPaths == {"", "missing", "present"}

\* an entry of the history of updateSetup calls: the circuit id, and numProofs
\* for the circuit aggregation-<numProofs>
SetupEntry(id, n) == [id |-> id, n |-> n]

\* limits.Checksum() + cfg.Execution.Features.Checksum()
CfgChecksum(limits) == <<[limitsSum |-> limits], [featuresSum |-> "features"]>>

\* what execution.NewBuilder and extraFlags got for an execution circuit, and
\* the rank of its FullZkEvm call among those of the run
NoBuilder == [limits |-> NilTL, cfgChecksum |-> << >>, zkEvm |-> NilPtr, call |-> 0]

\* the outcomes updateSetup may have, per value of the flag fForce
OutcomesUnderForce == [f \in BOOLEAN |-> {updateSetup(f, e) : e \in SetupEnvs}]

\* the outcomes updateSetup may have in this run
UpdateSetupOutcomes == OutcomesUnderForce[usForce]

\* the command has not been started
OffSetup ==
    /\ csPc = "off"
    /\ csErr = ""
    /\ fCircuits = {}
    /\ fDictPath = ""
    /\ cfgLimits = [normal |-> 1, large |-> 1]
    /\ cfgNumProofs = << >>
    /\ inCircuits = {}
    /\ csVisited = {}
    /\ csLog = {}
    /\ csVks = << >>
    /\ csExec = [c \in {ExecutionCircuitID, ExecutionLargeCircuitID} |-> NoBuilder]
    /\ csMkdir = FALSE
    /\ csSrs = FALSE

\* the command starts with arbitrary flags and an arbitrary config file
InitSetup ==
    /\ csPc = "config"
    /\ csErr = ""
    /\ fCircuits \in (SUBSET (allCircuits \cup {UnknownCircuit})) \ {{}}
    /\ fDictPath \in DictPaths
    /\ cfgLimits \in [normal : {1}, large : 1..NumLimits]
    /\ cfgNumProofs = [i \in 1..MaxNumProofs |-> i]
    /\ inCircuits = {}
    /\ csVisited = {}
    /\ csLog = {}
    /\ csVks = << >>
    /\ csExec = [c \in {ExecutionCircuitID, ExecutionLargeCircuitID} |-> NoBuilder]
    /\ csMkdir = FALSE
    /\ csSrs = FALSE

\* os.Stat(path) returns an error
StatFails(path) == path = "missing"

\* return err: the command returns, with "" for a nil error
ReturnSetup(err) ==
    /\ csPc' = "done"
    /\ csErr' = err

\* cfg, err := config.NewConfigFromFile(fConfigFile)
ReadConfig(ok) ==
    /\ UNCHANGED <<notSetup, varsOnce>>
    /\ csPc = "config"
    /\ IF ok
       THEN csPc' = "dict" /\ UNCHANGED csErr
       ELSE ReturnSetup("failed to read config file")
    /\ UNCHANGED <<fCircuits, fDictPath, cfgLimits, cfgNumProofs, inCircuits,
                   csVisited, csLog, csVks, csExec, csMkdir, csSrs>>

\* if fDictPath != "" { if _, err := os.Stat(fDictPath); err != nil {...} }
CheckDict ==
    /\ UNCHANGED <<notSetup, varsOnce>>
    /\ csPc = "dict"
    /\ IF fDictPath # "" /\ StatFails(fDictPath)
       THEN ReturnSetup("dictionary file not found")
       ELSE csPc' = "parse" /\ UNCHANGED csErr
    /\ UNCHANGED <<fCircuits, fDictPath, cfgLimits, cfgNumProofs, inCircuits,
                   csVisited, csLog, csVks, csExec, csMkdir, csSrs>>

\* broken variant: the names that are no key of the map are dropped
ParseCircuitsLenient ==
    /\ UNCHANGED <<notSetup, varsOnce>>
    /\ csPc = "parse"
    /\ csPc' = "assets"
    /\ inCircuits' = fCircuits \cap allCircuits
    /\ UNCHANGED <<csErr, fCircuits, fDictPath, cfgLimits, cfgNumProofs,
                   csVisited, csLog, csVks, csExec, csMkdir, csSrs>>

\* parse inCircuits: every name of the list must be a key of the map
ParseCircuits ==
    /\ UNCHANGED <<notSetup, varsOnce>>
    /\ csPc = "parse"
    /\ IF \E c \in fCircuits : c \notin allCircuits
       THEN ReturnSetup("unknown circuit") /\ UNCHANGED inCircuits
       ELSE csPc' = "assets" /\ inCircuits' = fCircuits /\ UNCHANGED csErr
    /\ UNCHANGED <<fCircuits, fDictPath, cfgLimits, cfgNumProofs,
                   csVisited, csLog, csVks, csExec, csMkdir, csSrs>>

\* os.MkdirAll(...), whose error is dropped, then circuits.NewSRSStore(...)
OpenAssets(ok) ==
    /\ UNCHANGED <<notSetup, varsOnce>>
    /\ csPc = "assets"
    /\ csMkdir' = TRUE
    /\ IF ok
       THEN csSrs' = TRUE /\ csPc' = "base" /\ UNCHANGED csErr
       ELSE ReturnSetup("failed to create SRS provider") /\ UNCHANGED csSrs
    /\ UNCHANGED <<fCircuits, fDictPath, cfgLimits, cfgNumProofs, inCircuits,
                   csVisited, csLog, csVks, csExec>>

\* broken variant: the guard is ignored and every call compiles again
FullZkEvmCallNoGuard(tl) ==
    [instances |-> NewZkEVM(tl), fullZkEvm |-> Len(instances) + 1, ran |-> TRUE]

\* zkevm.FullZkEvm(tl) called by the only goroutine of the command: the
\* closure runs if the guard is not consumed; the package variable is returned
FullZkEvmCall(tl) ==
    IF done = 0
    THEN [instances |-> NewZkEVM(tl), fullZkEvm |-> Len(instances) + 1,
          ran |-> TRUE]
    ELSE [instances |-> instances, fullZkEvm |-> fullZkEvm, ran |-> FALSE]

\* the variables of the FullZkEvm part a call from cmdSetup does not touch
onceIdle == <<pc, arg, ncalls, mutex, ret, panicked, crashed, overlap>>

\* the circuits of the first loop that are selected and not yet visited
BaseToDo == (inCircuits \cap BaseCircuits) \ csVisited

\* the end of an iteration of the first loop whose updateSetup returned r
\* and whose dictionary, if any, was written or not
EndIteration(c, r, dictWritten) ==
    /\ csLog' = csLog \cup {SetupEntry(c, 0)}
    /\ IF r.err # ""
       THEN ReturnSetup(r.err) /\ UNCHANGED csVisited
       ELSE IF ~dictWritten
       THEN ReturnSetup("failed to write dictionary file") /\ UNCHANGED csVisited
       ELSE csVisited' = csVisited \cup {c} /\ UNCHANGED <<csPc, csErr>>

\* case circuits.ExecutionCircuitID, circuits.ExecutionLargeCircuitID
SetupExecution(c, r) ==
    /\ UNCHANGED <<notSetup, onceIdle>>
    /\ csPc = "base"
    /\ c \in BaseToDo \cap {ExecutionCircuitID, ExecutionLargeCircuitID}
    /\ LET limits == IF c = ExecutionLargeCircuitID
                     THEN cfgLimits.large ELSE cfgLimits.normal
           z == FullZkEvmCall(limits)
       IN  /\ instances' = z.instances
           /\ fullZkEvm' = z.fullZkEvm
           /\ done' = 1
           /\ returned' = returned \cup {z.fullZkEvm}
           /\ closureArgs' = IF z.ran THEN Append(closureArgs, limits)
                             ELSE closureArgs
           /\ nCompile' = IF z.ran THEN nCompile + 1 ELSE nCompile
           /\ nWrite' = IF z.ran THEN nWrite + 1 ELSE nWrite
           /\ csExec' = [csExec EXCEPT ![c] =
                            [limits |-> limits,
                             cfgChecksum |-> CfgChecksum(limits),
                             zkEvm |-> z.fullZkEvm,
                             call |-> Cardinality({d \in DOMAIN csExec :
                                         csExec[d].zkEvm # NilPtr}) + 1]]
    /\ EndIteration(c, r, TRUE)
    /\ UNCHANGED <<fCircuits, fDictPath, cfgLimits, cfgNumProofs, inCircuits,
                   csVks, csMkdir, csSrs>>

\* case circuits.BlobDecompressionV0CircuitID, circuits.BlobDecompressionV1CircuitID
SetupBlobDecompression(c, readOk, r, writeOk) ==
    /\ UNCHANGED <<notSetup, varsOnce>>
    /\ csPc = "base"
    /\ c \in BaseToDo \cap {BlobDecompressionV0CircuitID, BlobDecompressionV1CircuitID}
    /\ IF fDictPath = "" \/ ~readOk
       THEN /\ ReturnSetup("failed to read dictionary file")
            /\ UNCHANGED <<csLog, csVisited>>
       ELSE EndIteration(c, r, writeOk)
    /\ UNCHANGED <<fCircuits, fDictPath, cfgLimits, cfgNumProofs, inCircuits,
                   csVks, csExec, csMkdir, csSrs>>

\* case circuits.EmulationDummyCircuitID
SetupEmulationDummy(r) ==
    /\ UNCHANGED <<notSetup, varsOnce>>
    /\ csPc = "base"
    /\ EmulationDummyCircuitID \in BaseToDo
    /\ EndIteration(EmulationDummyCircuitID, r, TRUE)
    /\ UNCHANGED <<fCircuits, fDictPath, cfgLimits, cfgNumProofs, inCircuits,
                   csVks, csExec, csMkdir, csSrs>>

\* broken variant: the command goes on to the aggregation circuits whatever
\* was selected
FinishBaseLoopAlways ==
    /\ UNCHANGED <<notSetup, varsOnce>>
    /\ csPc = "base"
    /\ BaseToDo = {}
    /\ csPc' = "keys"
    /\ UNCHANGED <<csErr, fCircuits, fDictPath, cfgLimits, cfgNumProofs,
                   inCircuits, csVisited, csLog, csVks, csExec, csMkdir, csSrs>>

\* the first loop is over:
\* if !(inCircuits[Aggregation] || inCircuits[Emulation]) { return nil }
FinishBaseLoop ==
    /\ UNCHANGED <<notSetup, varsOnce>>
    /\ csPc = "base"
    /\ BaseToDo = {}
    /\ IF ~(AggregationCircuitID \in inCircuits \/ EmulationCircuitID \in inCircuits)
       THEN ReturnSetup("")
       ELSE csPc' = "keys" /\ UNCHANGED csErr
    /\ UNCHANGED <<fCircuits, fDictPath, cfgLimits, cfgNumProofs, inCircuits,
                   csVisited, csLog, csVks, csExec, csMkdir, csSrs>>

\* the loop over cfg.Aggregation.AllowedInputs: the verifying key of every
\* allowed input is made (dummy circuits) or read; the first failure returns
CollectKeys(ok) ==
    /\ UNCHANGED <<notSetup, varsOnce>>
    /\ csPc = "keys"
    /\ IF ok
       THEN csPc' = "agg" /\ UNCHANGED csErr
       ELSE ReturnSetup("failed to read verifying key")
    /\ UNCHANGED <<fCircuits, fDictPath, cfgLimits, cfgNumProofs, inCircuits,
                   csVisited, csLog, csVks, csExec, csMkdir, csSrs>>

\* an iteration of the loop over cfg.Aggregation.NumProofs: updateSetup of
\* aggregation-<numProofs>, then its verifying key is read back
SetupAggregation(r, vkOk) ==
    /\ UNCHANGED <<notSetup, varsOnce>>
    /\ csPc = "agg"
    /\ Len(csVks) < Len(cfgNumProofs)
    /\ LET numProofs == cfgNumProofs[Len(csVks) + 1]
       IN  /\ csLog' = csLog \cup {SetupEntry(AggregationCircuitID, numProofs)}
           /\ IF r.err # ""
              THEN ReturnSetup(r.err) /\ UNCHANGED csVks
              ELSE IF ~vkOk
              THEN ReturnSetup("failed to read verifying key") /\ UNCHANGED csVks
              ELSE csVks' = Append(csVks, numProofs) /\ UNCHANGED <<csPc, csErr>>
    /\ UNCHANGED <<fCircuits, fDictPath, cfgLimits, cfgNumProofs, inCircuits,
                   csVisited, csExec, csMkdir, csSrs>>

\* broken variant: the emulation circuit does not wait for the aggregation ones
SetupEmulationEarly(r) ==
    /\ UNCHANGED <<notSetup, varsOnce>>
    /\ csPc = "agg"
    /\ csLog' = csLog \cup {SetupEntry(EmulationCircuitID, 0)}
    /\ ReturnSetup(r.err)
    /\ UNCHANGED <<fCircuits, fDictPath, cfgLimits, cfgNumProofs, inCircuits,
                   csVisited, csVks, csExec, csMkdir, csSrs>>

\* return updateSetup(..., circuits.EmulationCircuitID, builder, nil)
SetupEmulation(r) ==
    /\ UNCHANGED <<notSetup, varsOnce>>
    /\ csPc = "agg"
    /\ Len(csVks) = Len(cfgNumProofs)
    /\ csLog' = csLog \cup {SetupEntry(EmulationCircuitID, 0)}
    /\ ReturnSetup(r.err)
    /\ UNCHANGED <<fCircuits, fDictPath, cfgLimits, cfgNumProofs, inCircuits,
                   csVisited, csVks, csExec, csMkdir, csSrs>>

NextSetup ==
    \/ \E ok \in BOOLEAN : ReadConfig(ok)
    \/ CheckDict
    \/ ParseCircuits
    \/ \E ok \in BOOLEAN : OpenAssets(ok)
    \/ \E c \in BaseCircuits, r \in UpdateSetupOutcomes : SetupExecution(c, r)
    \/ \E c \in BaseCircuits, readOk \in BOOLEAN, r \in UpdateSetupOutcomes,
          writeOk \in BOOLEAN : SetupBlobDecompression(c, readOk, r, writeOk)
    \/ \E r \in UpdateSetupOutcomes : SetupEmulationDummy(r)
    \/ FinishBaseLoop
    \/ \E ok \in BOOLEAN : CollectKeys(ok)
    \/ \E r \in UpdateSetupOutcomes, vkOk \in BOOLEAN : SetupAggregation(r, vkOk)
    \/ \E r \in UpdateSetupOutcomes : SetupEmulation(r)

(***************************************************************************)
(* Specifications                                                          *)
(***************************************************************************)
\* concurrent and sequential callers of FullZkEvm
InitFullZkEvm == InitOnce /\ OffSV /\ OffWiz /\ OffSuite /\ OffUtils /\ OffUpdate /\ OffSetup
SpecFullZkEvm == InitFullZkEvm /\ [][NextOnce]_vars

\* one constructor call on arbitrary inputs, then Density or IntoRegVec
InitSmartVectors == InitOnce /\ InitSV /\ OffWiz /\ OffSuite /\ OffUtils /\ OffUpdate /\ OffSetup
SpecSmartVectors == InitSmartVectors /\ [][NextSV]_vars

\* compile a definition, prove a witness, verify the proof
InitWizard == InitOnce /\ OffSV /\ InitWiz /\ OffSuite /\ OffUtils /\ OffUpdate /\ OffSetup
SpecWizard == InitWizard /\ [][NextWiz]_vars

\* one application of fullCompilationSuite to an arbitrary initial instance
InitCompilationSuite == InitOnce /\ OffSV /\ OffWiz /\ InitSuite /\ OffUtils /\ OffUpdate /\ OffSetup
SpecCompilationSuite == InitCompilationSuite /\ [][NextSuite]_vars

\* one call of NextPowerOfTwo or RightPad on arbitrary arguments
InitUtilsCalls == InitOnce /\ OffSV /\ OffWiz /\ OffSuite /\ InitUtils /\ OffUpdate /\ OffSetup
SpecUtils == InitUtilsCalls /\ [][NextUtils]_vars

\* one call of updateSetup under an arbitrary flag and environment
InitUpdateSetup == InitOnce /\ OffSV /\ OffWiz /\ OffSuite /\ OffUtils /\ InitUpdate /\ OffSetup
SpecUpdateSetup == InitUpdateSetup /\ [][NextUpdate]_vars

\* one run of the setup command under arbitrary flags, config and answers
\* of the file system
InitSetupCommand ==
    /\ InitOnce /\ OffSV /\ OffWiz /\ OffSuite /\ OffUtils
    /\ usPc = "off" /\ usForce \in BOOLEAN
    /\ usEnv = [compileOk |-> TRUE, manifest |-> Unreadable, digestOk |-> TRUE,
                digest |-> 1, setupOk |-> TRUE, writeOk |-> TRUE]
    /\ usOut = SetupOutcome("", FALSE, FALSE, FALSE)
    /\ InitSetup
SpecSetup == InitSetupCommand /\ [][NextSetup]_vars

(***************************************************************************)
(* Properties of zkevm.FullZkEvm (specification SpecFullZkEvm)             *)
(***************************************************************************)
\* the callers whose current call has returned
HasReturned(c) == ret[c] # NoRet

\* C1: whatever trace limits the concurrent or sequential calls pass, every
\* call returns the same pointer, and a returned instance is the one built
\* from the limits of the single call whose initialization closure ran
\* (first writer wins); unless that closure panicked, the pointer is not nil.
C1_SameInstanceFirstWriterWins ==
    /\ Cardinality(returned) <= 1
    /\ \A c \in Callers : HasReturned(c) => ret[c] \in returned
    /\ \A p \in returned :
          IF p = NilPtr
             THEN panicked
             ELSE /\ Len(closureArgs) = 1
                  /\ p \in 1..Len(instances)
                  /\ instances[p] = closureArgs[1]

\* C1 witness: two callers passed different non-nil limits, one of them while
\* the other's closure was running, and both calls returned an instance
C1_Witness ==
    /\ \A c \in Callers : HasReturned(c) /\ ret[c] # NilPtr /\ arg[c] # NilTL
    /\ \E c, d \in Callers : arg[c] # arg[d] /\ overlap[d]

\* C2: in every interleaving NewZkEVM is executed at most once and the
\* variable fullZkEvm is written at most once.
C2_CompiledAtMostOnce ==
    /\ nCompile <= 1
    /\ nWrite <= 1

\* C2 witness: every caller has finished all its calls and exactly one
\* compilation and one write took place
C2_Witness ==
    /\ \A c \in Callers : ncalls[c] = MaxCalls /\ pc[c] = "idle" /\ HasReturned(c)
    /\ nCompile = 1
    /\ nWrite = 1

\* C3: a call reaches its return statement only once the guard is set and no
\* initialization closure is running any more; when the closure returned
\* normally the value a caller reads and returns is never nil.
C3_ReturnOnlyAfterCompilation ==
    \A c \in Callers :
        /\ (pc[c] = "return" \/ HasReturned(c)) =>
              /\ done = 1
              /\ \A d \in Callers :
                    pc[d] \notin InClosure \cup {"storedone", "storedoneP"}
        /\ (pc[c] = "return" /\ ~panicked) => fullZkEvm # NilPtr
        /\ (HasReturned(c) /\ ~panicked) => ret[c] # NilPtr

\* C3 witness: a call that started while another caller's closure was running
\* has returned the compiled instance
C3_Witness ==
    \E c \in Callers :
        /\ overlap[c]
        /\ HasReturned(c)
        /\ ret[c] # NilPtr
        /\ ~panicked

(***************************************************************************)
(* Properties of smartvectors (specification SpecSmartVectors)             *)
(***************************************************************************)
\* a constructor has been applied to the inputs
Applied == svPc \in {"built", "measured", "converted", "mutated"}
\* len(v) of the input slice
LenV == Len(heap[inV])
PaddedOps == {"LeftPadded", "RightPadded", "LeftZeroPadded", "RightZeroPadded"}
\* the padding the applied constructor used
PadUsed == IF op \in {"LeftZeroPadded", "RightZeroPadded"} THEN FieldZero ELSE inPad

\* C4: Density returns 0 for a Constant, the length of the window for a
\* PaddedCircularWindow, the full length for a Regular, the length of the
\* underlying vector for a Rotated, and panics for any other variant.
C4_DensityPerVariant ==
    svPc = "measured" =>
        /\ sv.kind = "Constant" => dens = 0
        /\ sv.kind = "PaddedCircularWindow" => dens = Len(heap[sv.data])
        /\ sv.kind = "Regular" => dens = SVLen(heap, sv)
        /\ sv.kind = "Rotated" => dens = Len(heap[sv.data])
        /\ sv.kind \notin Variants => dens = DensityPanic

\* C4 witness: Density was taken of a window shorter than the padded vector
C4_Witness ==
    /\ svPc = "measured"
    /\ sv.kind = "PaddedCircularWindow"
    /\ dens = Len(heap[sv.data])
    /\ dens < SVLen(heap, sv)

\* the representation C5 expects of LeftPadded / RightPadded for len(v) <= targetLen
MinimalRepresentation ==
    /\ LenV = 0 => sv.kind = "Constant" /\ Density(heap, sv) = 0
    /\ (0 < LenV /\ LenV < inTarget) =>
          /\ sv.kind = "PaddedCircularWindow"
          /\ sv.data = inV
          /\ Density(heap, sv) = LenV
    /\ LenV = inTarget =>
          /\ sv.kind = "Regular"
          /\ sv.data = inV
          /\ Density(heap, sv) = inTarget

\* C5 as stated: for every v, padding and targetLen with len(v) <= targetLen
\* the result of LeftPadded / RightPadded is a Constant of Density 0 when v is
\* empty, a window over v of Density len(v) when 0 < len(v) < targetLen, and
\* a Regular holding v of Density targetLen when len(v) == targetLen.
C5_Original_MinimalDensity ==
    (Applied /\ op \in {"LeftPadded", "RightPadded"} /\ LenV <= inTarget) =>
        MinimalRepresentation

\* C5 as amended: the same for every v, padding and targetLen with
\* len(v) <= targetLen and targetLen > 0 (with v empty and targetLen == 0 the
\* call takes the len(v) == targetLen branch and no Constant is returned).
C5_MinimalDensity ==
    (Applied /\ op \in {"LeftPadded", "RightPadded"} /\ LenV <= inTarget
        /\ inTarget > 0) =>
        MinimalRepresentation

\* C5 witness: LeftPadded on an empty v returned a Constant of Density 0
C5_Witness ==
    /\ Applied
    /\ op = "LeftPadded"
    /\ LenV = 0
    /\ inTarget > 0
    /\ sv.kind = "Constant"
    /\ Density(heap, sv) = 0

\* C6: for len(v) <= targetLen and targetLen > 0, RightPadded returns a vector
\* of length targetLen whose entry i is v[i] for i < len(v) and padding
\* otherwise; LeftPadded one whose entry i is padding for i < targetLen-len(v)
\* and v[i-(targetLen-len(v))] otherwise; the ZeroPadded ones use padding 0.
C6_PaddedEntries ==
    (Applied /\ op \in PaddedOps /\ LenV <= inTarget /\ inTarget > 0) =>
        /\ ~IsPanic(sv)
        /\ SVLen(heap, sv) = inTarget
        /\ \A i \in 0..(inTarget - 1) :
              Get(heap, sv, i) =
                 IF op \in {"RightPadded", "RightZeroPadded"}
                    THEN IF i < LenV THEN heap[inV][i + 1] ELSE PadUsed
                    ELSE IF i < inTarget - LenV
                            THEN PadUsed
                            ELSE heap[inV][i - (inTarget - LenV) + 1]

\* C6 witness: RightPadded really padded a non-empty v with a padding that
\* differs from the last entry of v
C6_Witness ==
    /\ Applied
    /\ op = "RightPadded"
    /\ 0 < LenV
    /\ LenV < inTarget
    /\ heap[inV][LenV] # inPad
    /\ Get(heap, sv, inTarget - 1) = inPad
    /\ Get(heap, sv, LenV - 1) = heap[inV][LenV]

\* C7: the constructors of smartvectors.go (AllocateRegular, Rand, ForTest,
\* LeftPadded, RightPadded and their zero-padding forms) never return a vector
\* of length 0: AllocateRegular(0) and the padded constructors on an empty v
\* with targetLen == 0 panic, and every vector returned has Len() > 0.
C7_NoZeroLength ==
    (Applied /\ op \in PaddedOps \cup {"AllocateRegular", "Rand", "ForTest"}) =>
        /\ ~IsPanic(sv) => SVLen(heap, sv) > 0
        /\ (op = "AllocateRegular" /\ inTarget = 0) => IsPanic(sv)
        /\ (op \in PaddedOps /\ LenV = 0 /\ inTarget = 0) => IsPanic(sv)

\* C7 witness: AllocateRegular(0) was rejected
C7_Witness ==
    /\ Applied
    /\ op = "AllocateRegular"
    /\ inTarget = 0
    /\ IsPanic(sv)

\* C8: whenever len(v) > targetLen, LeftPadded and RightPadded panic with
\* their own "target length" error and return no vector, for every padding.
C8_NeverTruncates ==
    (Applied /\ op \in PaddedOps /\ LenV > inTarget) =>
        /\ IsPanic(sv)
        /\ sv.msg = "target length must be less than"

\* C8 witness: RightPadded was called with a v longer than a positive targetLen
C8_Witness ==
    /\ Applied
    /\ op = "RightPadded"
    /\ inTarget > 0
    /\ LenV > inTarget
    /\ IsPanic(sv)

\* C9: for a vector s of any of the four variants IntoRegVec(s) returns a
\* newly allocated slice r of length s.Len() with r[i] == s.Get(i), its
\* WriteInSlice does not panic, NewRegular(r) has the entries of s, and
\* writing to r afterwards leaves the entries of s as they were.
C9_IntoRegVecRoundTrip ==
    (svPc \in {"converted", "mutated"}) =>
        /\ regvec # -1
        /\ regvec = Len(heap)
        /\ regvec # sv.data
        /\ regvec # inV
        /\ Len(heap[regvec]) = SVLen(heap, sv)
        /\ Values(heap, sv) = snap
        /\ svPc = "converted" =>
              /\ \A i \in 1..SVLen(heap, sv) : heap[regvec][i] = Get(heap, sv, i - 1)
              /\ ~IsPanic(NewRegular(heap, regvec))
              /\ Values(heap, NewRegular(heap, regvec)) = snap

\* C9 witness: the slice obtained from a rotated vector was written to
C9_Witness ==
    /\ svPc = "mutated"
    /\ sv.kind = "Rotated"
    /\ sv.offset # 0
    /\ Values(heap, sv) = snap
    /\ heap[regvec] # snap

(***************************************************************************)
(* Properties of wizard.Compile / Prove / Verify (specification SpecWizard)*)
(***************************************************************************)
\* the witness satisfies every query the definition registered
ValidWitness ==
    \A q \in wzComp.queries :
        QueryHolds(q, wzWitA, wzWitB, FiatShamirCoin(wzWitA))

Kind(i) == suApplied[i].kind

\* the suite has no pass left to apply, or a pass failed
SuiteEnded == suPc = Len(fullCompilationSuite) + 1 \/ suPc = -1

\* a round starts with the suite and after every CleanUp: the index at which
\* the round of the i-th applied pass starts
RoundStart(i) ==
    CHOOSE j \in 1..i :
        /\ j = 1 \/ Kind(j - 1) = "CleanUp"
        /\ \A k \in (j + 1)..i : Kind(k - 1) # "CleanUp"

\* C11: the passes are applied in a strict order: the first pass is the MiMC
\* compile; every Vortex step comes right after a MiMC compile followed by an
\* Arcane; every SelfRecurse comes right after a Vortex step and is followed
\* at once by CleanUp; the suite ends with a Vortex step; and in every round
\* nothing but a MiMC compile runs before the first MiMC compile of the round
C11_PassOrder ==
    LET n == Len(suApplied)
    IN  /\ n >= 1 => Kind(1) = "CompileMiMC"
        /\ \A i \in 1..n :
              /\ Kind(i) = "Vortex" =>
                    /\ i >= 3
                    /\ Kind(i - 1) = "Arcane"
                    /\ Kind(i - 2) = "CompileMiMC"
              /\ Kind(i) = "SelfRecurse" =>
                    /\ i >= 2
                    /\ Kind(i - 1) = "Vortex"
                    /\ i < n => Kind(i + 1) = "CleanUp"
                    /\ i = n => ~SuiteEnded
              /\ Kind(i) # "CompileMiMC" =>
                    \E j \in RoundStart(i)..(i - 1) : Kind(j) = "CompileMiMC"
        /\ SuiteEnded => n >= 1 /\ Kind(n) = "Vortex"

\* the whole suite has been applied, its three recursions included
C11_Witness ==
    /\ suPc = Len(fullCompilationSuite) + 1
    /\ Len(suApplied) = 18
    /\ \E i \in 1..Len(suApplied) : Kind(i) = "SelfRecurse"

\* the values a parameter takes in the passes of one kind, in order
ParamsOf(kind, Field(_)) ==
    LET sel == SelectSeq(suApplied, LAMBDA p : p.kind = kind)
    IN  [i \in 1..Len(sel) |-> Field(sel[i].params)]

ArcaneMaxBounds == ParamsOf("Arcane", LAMBDA p : p.maxBound)
VortexOpened == ParamsOf("Vortex", LAMBDA p : p.opened)
VortexFold == ParamsOf("Vortex", LAMBDA p : p.fold)

StrictlyDecreasing(s) == \A i \in 1..(Len(s) - 1) : s[i] > s[i + 1]
NeverIncreasing(s) == \A i \in 1..(Len(s) - 1) : s[i] >= s[i + 1]
NeverDecreasing(s) == \A i \in 1..(Len(s) - 1) : s[i] <= s[i + 1]

\* C12 as stated: from one round to the next the Arcane maxBound, the number
\* of opened Vortex columns and the Vortex folding parameter each decrease
C12_Original_AllDecrease ==
    /\ StrictlyDecreasing(ArcaneMaxBounds)
    /\ StrictlyDecreasing(VortexOpened)
    /\ StrictlyDecreasing(VortexFold)

\* C12: from one round to the next the Arcane maxBound decreases, the number
\* of opened Vortex columns never increases and the Vortex folding parameter
\* never decreases
C12_BoundsPerRound ==
    /\ StrictlyDecreasing(ArcaneMaxBounds)
    /\ NeverIncreasing(VortexOpened)
    /\ NeverDecreasing(VortexFold)

\* the four rounds have run: 2^19, 2^18, 2^16, 2^13; 256, 256, 64, 64; 2, 2, 8, 8
C12_Witness ==
    /\ ArcaneMaxBounds = <<2^19, 2^18, 2^16, 2^13>>
    /\ VortexOpened = <<256, 256, 64, 64>>
    /\ VortexFold = <<2, 2, 8, 8>>

\* the i-th applied pass is a Vortex step with the given hash
VortexWith(i, hash) ==
    Kind(i) = "Vortex" /\ suApplied[i].params.option.hash = hash

\* C13: exactly one Vortex step, the last pass of the suite, replaces SIS by
\* MiMC; every earlier Vortex step uses SIS with the shared sisInstance
\* (LogTwoBound 16, LogTwoDegree 6); and no SelfRecurse follows the Vortex
\* step that uses MiMC
C13_HashPerVortexStep ==
    LET n == Len(suApplied)
    IN  /\ \A i \in 1..n :
              /\ Kind(i) = "Vortex" =>
                    VortexWith(i, "SIS") \/ VortexWith(i, "MiMC")
              /\ VortexWith(i, "MiMC") =>
                    /\ i = n
                    /\ suPc = Len(fullCompilationSuite) + 1
              /\ VortexWith(i, "SIS") =>
                    /\ suApplied[i].params.option.sis = sisInstance
                    /\ suApplied[i].params.option.sis.LogTwoBound = 16
                    /\ suApplied[i].params.option.sis.LogTwoDegree = 6
              /\ Kind(i) = "SelfRecurse" =>
                    \A j \in 1..(i - 1) : ~VortexWith(j, "MiMC")
        /\ suPc # -1
        /\ SuiteEnded =>
              Cardinality({i \in 1..n : VortexWith(i, "MiMC")}) = 1

\* the last Vortex step uses MiMC, after three recursions over SIS
C13_Witness ==
    /\ SuiteEnded
    /\ VortexWith(Len(suApplied), "MiMC")
    /\ suComp.commitment = "MiMC"
    /\ suComp.layers = 3
    /\ Cardinality({i \in 1..Len(suApplied) : VortexWith(i, "SIS")}) = 3

(***************************************************************************)
(* Properties of utils.NextPowerOfTwo and utils.RightPad (specification    *)
(* SpecUtils)                                                              *)
(***************************************************************************)
\* the call of the function fn has ended, by a return or by a panic
Called(fn) == utPc = "done" /\ utIn.fn = fn

\* a >= b on signed ints
AtLeast(a, b) == a = b \/ Greater(a, b)

\* the positive powers of two an int can hold
PowersOfTwo == {OneShl(k) : k \in 0..(IntBits - 2)}

\* C15: for 0 <= in <= 2^62 NextPowerOfTwo returns the smallest power of two
\* that is >= in, which is in itself when in is a power of two, except that it
\* returns 0 for in = 0; for in > 2^62 it panics
C15_NextPowerOfTwo ==
    Called("NextPowerOfTwo") =>
        LET in == utIn.in
        IN  /\ Greater(in, OneShl(62)) =>
                  utOut = PanicUtils("Input is too large")
            /\ in = ZeroWord => utOut = ReturnUtils(ZeroWord)
            /\ (Greater(in, ZeroWord) /\ ~Greater(in, OneShl(62))) =>
                  /\ ~utOut.panic
                  /\ utOut.val \in PowersOfTwo
                  /\ AtLeast(utOut.val, in)
                  /\ \A p \in PowersOfTwo : AtLeast(p, in) => AtLeast(p, utOut.val)
                  /\ IsPowerOfTwo(in) => utOut.val = in
                  /\ in \in PowersOfTwo <=> IsPowerOfTwo(in)

\* 2^40 + 1 was rounded up to 2^41, 2^62 was returned as it is, and a larger
\* input made the function panic
C15_Witness ==
    /\ Called("NextPowerOfTwo")
    /\ \/ utIn.in = Inc(OneShl(40)) /\ utOut = ReturnUtils(OneShl(41))
       \/ utIn.in = OneShl(62) /\ utOut = ReturnUtils(OneShl(62))
       \/ utIn.in = Inc(OneShl(62)) /\ utOut.panic

\* C16: RightPad(s, n, padWith) never returns a slice whose length differs
\* from n: it returns a fresh copy of s extended with padWith up to length n,
\* leaves s as it was, and panics when s cannot be padded to length n
C16_RightPadLength ==
    Called("RightPad") =>
        LET s == utHeap[utIn.s]
        IN  /\ Len(s) > utIn.n => utOut.panic
            /\ ~utOut.panic =>
                  LET res == utHeap[utOut.val]
                  IN  /\ Len(res) = utIn.n
                      /\ utOut.val # utIn.s
                      /\ SubSeq(res, 1, Len(s)) = s
                      /\ \A i \in (Len(s) + 1)..Len(res) : res[i] = utIn.padWith

(***************************************************************************)
(* Properties of cmd.updateSetup (specification SpecUpdateSetup)           *)
(***************************************************************************)
\* the manifest on disk is readable and its circuit checksum is the digest of
\* the freshly compiled circuit
ManifestMatches == usEnv.manifest # Unreadable /\ usEnv.manifest = usEnv.digest

\* the call has ended and neither Compile nor CircuitDigest can fail
UpdateSetupEnded == usPc = "done" /\ usEnv.compileOk /\ usEnv.digestOk

\* updateSetup skipped the setup: no MakeSetup, nothing written, no error
SkippedSetup ==
    usOut.skipped /\ ~usOut.ranSetup /\ ~usOut.wrote /\ usOut.err = ""

ExecutionCircuits == {ExecutionCircuitID, ExecutionLargeCircuitID}

\* the first loop has called FullZkEvm for both execution circuits
BothExecutionSetUp == \A c \in ExecutionCircuits : csExec[c].zkEvm # NilPtr

\* the execution circuit the first loop processed first, and the other one
FirstExecution == CHOOSE c \in ExecutionCircuits : csExec[c].call = 1
SecondExecution == CHOOSE c \in ExecutionCircuits : c # FirstExecution

\* C17: in a run that sets up both execution and execution-large, FullZkEvm
\* is called with the limits of each (cfg.TracesLimits, cfg.TracesLimitsLarge)
\* but compiles once: the second call returns the instance built from the
\* limits of the circuit processed first, so both builders get the same
\* instance, while the cfg_checksum flags differ as the limits do
C17_SharedZkEvm ==
    BothExecutionSetUp =>
        LET first == csExec[FirstExecution]
            second == csExec[SecondExecution]
        IN  /\ second.call = 2
            /\ csExec[ExecutionCircuitID].limits = cfgLimits.normal
            /\ csExec[ExecutionLargeCircuitID].limits = cfgLimits.large
            /\ second.zkEvm = first.zkEvm
            /\ instances[second.zkEvm] = first.limits
            /\ nCompile = 1
            /\ closureArgs = <<first.limits>>
            /\ cfgLimits.normal # cfgLimits.large =>
                  /\ first.limits # second.limits
                  /\ first.cfgChecksum # second.cfgChecksum
                  /\ instances[second.zkEvm] # second.limits

\* execution-large came first in the iteration of the map: the builder of
\* execution got the instance built from cfg.TracesLimitsLarge
C17_Witness ==
    /\ BothExecutionSetUp
    /\ cfgLimits.normal # cfgLimits.large
    /\ FirstExecution = ExecutionLargeCircuitID
    /\ instances[csExec[ExecutionCircuitID].zkEvm] = cfgLimits.large
    /\ csExec[ExecutionCircuitID].cfgChecksum = CfgChecksum(cfgLimits.normal)
    /\ csPc = "done"
    /\ csErr = ""


\* updateSetup has been called for the circuit id (of size n)
SetUp(id, n) == SetupEntry(id, n) \in csLog

\* the aggregation-N circuits updateSetup has been called for
AggregationSetUp == {e.n : e \in {x \in csLog : x.id = AggregationCircuitID}}

\* the first k sizes of cfg.Aggregation.NumProofs
FirstNumProofs(k) == {cfgNumProofs[i] : i \in 1..k}

\* the loop over the selected base circuits has finished without error
BaseLoopDone ==
    /\ csSrs
    /\ \A c \in inCircuits \cap BaseCircuits : c \in csVisited /\ SetUp(c, 0)

\* C18: the phases of the command come in a fixed order: no aggregation-N
\* circuit is set up before the loop over the selected base circuits has
\* finished without error; emulation is set up only after every
\* aggregation-N circuit of cfg.Aggregation.NumProofs has been set up and
\* its verifying key read back; and the first error ends the run, so that no
\* later circuit is set up
C18_PhaseOrder ==
    /\ (AggregationSetUp # {} \/ SetUp(EmulationCircuitID, 0)) =>
          /\ BaseLoopDone
          /\ csPc \in {"agg", "done"}
    /\ \/ AggregationSetUp = FirstNumProofs(Len(csVks))
       \/ /\ AggregationSetUp = FirstNumProofs(Len(csVks) + 1)
          /\ csPc = "done"
          /\ csErr # ""
          /\ ~SetUp(EmulationCircuitID, 0)
    /\ csVks = SubSeq(cfgNumProofs, 1, Len(csVks))
    /\ SetUp(EmulationCircuitID, 0) =>
          /\ csVks = cfgNumProofs
          /\ AggregationSetUp = FirstNumProofs(Len(cfgNumProofs))
          /\ csPc = "done"
    /\ csErr # "" => csPc = "done"
    /\ (csPc = "done" /\ csErr # "" /\ ~BaseLoopDone) =>
          AggregationSetUp = {} /\ ~SetUp(EmulationCircuitID, 0)

\* a run went through the three phases: base circuits, every aggregation-N,
\* then emulation, and returned nil
C18_Witness ==
    /\ csPc = "done"
    /\ csErr = ""
    /\ inCircuits = allCircuits
    /\ csVisited = BaseCircuits
    /\ csVks = cfgNumProofs
    /\ Len(csVks) >= 2
    /\ SetUp(EmulationCircuitID, 0)

\* the --circuits list has a name that is no key of inCircuits
HasUnknownCircuit == \E c \in fCircuits : c \notin allCircuits

\* nothing has been created, opened or compiled
NothingStarted ==
    /\ ~csMkdir
    /\ ~csSrs
    /\ csLog = {}
    /\ nCompile = 0
    /\ csPc \in {"config", "dict", "parse", "done"}

\* C19: an unknown name in the --circuits list makes the command return the
\* 'unknown circuit' error before the assets directory is created, the SRS
\* store is opened or a circuit is compiled; likewise a dictionary path that
\* is given but does not exist makes it return before those steps (when
\* both faults are present the dictionary is reported, being checked first,
\* and an unreadable config file is reported before either)
C19_ValidationFirst ==
    /\ (HasUnknownCircuit \/ fDictPath = "missing") => NothingStarted
    /\ (csPc = "done" /\ fDictPath = "missing") =>
          csErr \in {"failed to read config file", "dictionary file not found"}
    /\ (csPc = "done" /\ HasUnknownCircuit /\ fDictPath # "missing") =>
          csErr \in {"failed to read config file", "unknown circuit"}

\* the run of `--circuits execution,no-such-circuit` returned 'unknown circuit'
C19_Witness ==
    /\ csPc = "done"
    /\ fCircuits = {ExecutionCircuitID, UnknownCircuit}
    /\ fDictPath = "present"
    /\ csErr = "unknown circuit"
    /\ NothingStarted

\* aggregation or emulation is selected
AggregationSelected ==
    AggregationCircuitID \in inCircuits \/ EmulationCircuitID \in inCircuits

\* C20: aggregation and emulation are set up together: when at least one of
\* them is selected, a run that meets no error sets up every aggregation-N
\* circuit and then the emulation circuit, whichever of the two was selected;
\* when neither is selected the run returns after the base circuits and sets
\* up none of them
C20_AggregationWithEmulation ==
    /\ (csPc = "done" /\ csErr = "" /\ AggregationSelected) =>
          /\ AggregationSetUp = FirstNumProofs(Len(cfgNumProofs))
          /\ csVks = cfgNumProofs
          /\ SetUp(EmulationCircuitID, 0)
    /\ SetUp(EmulationCircuitID, 0) =>
          AggregationSetUp = FirstNumProofs(Len(cfgNumProofs))
    /\ ~AggregationSelected =>
          /\ AggregationSetUp = {}
          /\ ~SetUp(EmulationCircuitID, 0)
          /\ csPc \notin {"keys", "agg"}
          /\ (csPc = "done" /\ csErr = "") => BaseLoopDone

\* only `emulation` was selected, and every aggregation-N was set up before it
C20_Witness ==
    /\ csPc = "done"
    /\ csErr = ""
    /\ inCircuits = {EmulationCircuitID}
    /\ AggregationSetUp = FirstNumProofs(Len(cfgNumProofs))
    /\ AggregationSetUp # {}
    /\ SetUp(EmulationCircuitID, 0)

(***************************************************************************)
(* Properties of a panicking first compilation (specification              *)
(* SpecFullZkEvm)                                                          *)
(***************************************************************************)
\* the goroutine whose closure panicked has run the deferred calls of doSlow
PanicUnwound ==
    panicked /\ \A c \in Callers : pc[c] \notin {"storedoneP", "unlockP"}

\* C21: when the first compilation started by FullZkEvm panics (the trace
\* limits are nil), the guard is consumed all the same: no later call runs the
\* closure or the compilation again, and every later call returns the nil
\* instance instead of retrying
C21_PanicConsumesGuard ==
    /\ panicked =>
          /\ closureArgs = <<NilTL>>
          /\ nCompile = 0
          /\ nWrite = 0
          /\ fullZkEvm = NilPtr
          /\ instances = << >>
          /\ returned \subseteq {NilPtr}
          /\ \A c \in Callers : HasReturned(c) => ret[c] = NilPtr
    /\ PanicUnwound =>
          /\ done = 1
          /\ \A c \in Callers : pc[c] \notin InClosure \cup {"storedone"}

\* after the recovered panic of a call with nil limits, every caller made all
\* its calls, one of them with valid limits, and that call returned nil
C21_Witness ==
    /\ panicked
    /\ ~crashed
    /\ \A c \in Callers : ncalls[c] = MaxCalls /\ pc[c] = "idle"
    /\ \E c \in Callers : HasReturned(c) /\ arg[c] # NilTL /\ ret[c] = NilPtr

(***************************************************************************)
(* Properties of utils.GCD (specification SpecUtils)                       *)
(***************************************************************************)
\* d divides n
Divides(d, n) == n % d = 0

\* the greatest common divisor of the positive ints a and b
GreatestCommonDivisor(a, b) ==
    CHOOSE d \in 1..a :
        /\ Divides(d, a) /\ Divides(d, b)
        /\ \A e \in 1..a : (Divides(e, a) /\ Divides(e, b)) => e <= d

\* the loop of GCD is at an iteration that leaves a and b as they are: it
\* will run this same iteration for ever
GCDStuck ==
    /\ utIn.fn = "GCD"
    /\ utPc = "loop"
    /\ utLocals[1] # utLocals[2]
    /\ GCDStep(utLocals[1], utLocals[2]) = utLocals

\* C22: GCD(a, b) terminates for every pair of ints, no iteration of its
\* loop repeating the state it started from, and for positive a and b it
\* returns their greatest common divisor
C22_GCDTerminates ==
    /\ ~GCDStuck
    /\ (Called("GCD") /\ utIn.a > 0 /\ utIn.b > 0) =>
          utOut = ReturnUtils(GreatestCommonDivisor(utIn.a, utIn.b))

\* for positive a and b GCD returns their greatest common divisor and, on the
\* way, every iteration makes a + b smaller
C22_PositiveInputs ==
    /\ (utIn.fn = "GCD" /\ utIn.a > 0 /\ utIn.b > 0) =>
          /\ ~GCDStuck
          /\ utLocals[1] > 0 /\ utLocals[2] > 0
          /\ utLocals[1] + utLocals[2] <= utIn.a + utIn.b
          /\ utPc = "loop" => utLocals[1] + utLocals[2] < utIn.a + utIn.b
    /\ (Called("GCD") /\ utIn.a > 0 /\ utIn.b > 0) =>
          utOut = ReturnUtils(GreatestCommonDivisor(utIn.a, utIn.b))

====
